---------------------------- MODULE Spec2Model ----------------------------
(***************************************************************************)
(* Exercise selection engine of ellis-guo/final_project:                   *)
(*   src/algorithms/base_selector.py    scoring, pool resolution, weekly   *)
(*                                      orchestration                      *)
(*   src/algorithms/greedy_selector.py  GreedySelector                     *)
(*   src/algorithms/hybrid_selector.py  HybridSelector (exhaustive search, *)
(*                                      greedy search, 2-opt)              *)
(*                                                                         *)
(* Scores are fixed-point integers in thousandths of a point (19.4 points  *)
(* is 19400), so that round(x, 2) is a real conversion: the nearest        *)
(* multiple of 10, halves to the even hundredth, as Python rounds a value  *)
(* that is exactly representable.  Each exercise's score is rounded to     *)
(* hundredths when its record is built.                                    *)
(*                                                                         *)
(* The totals the searches compare are sum(...) over those rounded scores, *)
(* which CPython 3.11 computes by adding IEEE-754 doubles left to right.   *)
(* A double is modelled as [n, e]: the decimal n thousandths it stands for *)
(* and its distance e from that decimal, in units of 2^-59 / 25 (a unit    *)
(* in which every double between 2^-7 and 2^10 is an integer).  Two totals *)
(* with the same decimal value can differ in e, and the searches compare   *)
(* them as doubles.                                                        *)
(*                                                                         *)
(* The JSON files the constructor loads (strength.json, config.json and    *)
(* classification/*.json) are not part of the source tree; the data        *)
(* definitions below are a small synthetic corpus with the same shape.     *)
(***************************************************************************)
EXTENDS Integers, Sequences, FiniteSets, TLC

(***************************************************************************)
(* Bounds of the model.                                                    *)
(***************************************************************************)
\* number of exercises in the corpus (strength.json); ids are 0..NumExercises-1
NumExercises == 7
\* number of generate_weekly_plan calls made on one selector
MaxCalls == 2

(***************************************************************************)
(* Program constants.                                                      *)
(***************************************************************************)
\* the number of exercises exhaustive search and 2-opt are written for
\* (hybrid_selector.py: "< 5", combinations(candidate_ids, 5), range(5))
FIXED_K == 5
\* float('-inf'): below every score the model can compute
NEG_INF == -1000000000
\* None, where the code holds an exercise id (pks are never negative)
NONE_ID == -1

(***************************************************************************)
(* Reference data (BaseSelector.__init__).                                 *)
(***************************************************************************)
\* self.exercises: the pk of every exercise of the corpus
ExercisePks == 0 .. (NumExercises - 1)

\* exercise['primaryMuscles']
primaryMuscles(pk) ==
    CASE pk = 0 -> <<"lats">>
      [] pk = 1 -> <<"pectorals">>
      [] pk = 2 -> <<"pectorals", "triceps">>
      [] pk = 3 -> <<"pectorals">>
      [] pk = 4 -> <<"biceps">>
      [] pk = 5 -> <<"triceps", "biceps">>
      [] pk = 6 -> <<"lats", "abs">>
      [] OTHER  -> <<"abs">>

\* exercise.get('secondaryMuscles', [])
secondaryMuscles(pk) ==
    CASE pk = 0 -> <<"biceps">>
      [] pk = 1 -> <<"triceps", "neck">>
      [] pk = 3 -> <<"pectorals", "abs", "obliques", "neck">>
      [] pk = 4 -> <<"pectorals", "abs", "obliques", "neck">>
      [] pk = 5 -> <<"pectorals">>
      [] pk = 6 -> <<"biceps", "neck">>
      [] OTHER  -> << >>

\* self.category_mapping (categoryMapping.json): label -> exercise ids.
\* "chest" names id 9, which no exercise of the corpus has.
category_mapping ==
    [chest |-> {1, 2, 3, 4, 5, 9},
     back  |-> {0, 2, 3, 4, 5, 6},
     arm   |-> {4, 5, 6}]

\* self.preference_mapping (preferenceMapping.json): category -> muscles
preference_mapping ==
    [chest   |-> {"pectorals"},
     back    |-> {"lats"},
     arm     |-> {"biceps", "triceps"},
     neckcat |-> {"neck"}]

\* the MUSCLE_PREFERENCES of the class BaseSelector, in tenths (1.5 is 15)
ClassMusclePreferences ==
    [chest |-> 15, back |-> 6, shoulder |-> 6, arm |-> 6, leg |-> 6, core |-> 6]

\* self.MUSCLE_PREFERENCES: the coefficients of the selector, category ->
\* tenths.  The class attribute unless the caller has assigned its own
\* (app.py: selector.MUSCLE_PREFERENCES = muscle_preferences).
VARIABLE MUSCLE_PREFERENCES

\* self.classifications: the six classification tables
classifications ==
    [major    |-> [Major |-> {0, 1, 2}, Minor |-> {3, 4, 5}],
     compound |-> [compound |-> {0, 1, 3, 5}, isolation |-> {2, 4, 6}],
     single   |-> [bilateral |-> {0, 1, 2, 3}, single_sided |-> {4, 5}],
     machine  |-> [free |-> {0, 2, 4, 6}, equipment |-> {1, 3, 5}],
     common   |-> [Common |-> {0, 1, 3}],
     family   |-> [press |-> {1, 2}, row |-> {0, 6}, curl |-> {4, 5}]]

\* self.training_templates (trainingTemplates.json): the entry of key
\* str(d) at index d.  An empty list of labels is a rest day.
training_templates ==
    << << <<"all">> >>,
       << <<"chest">>, <<"back">> >>,
       << <<"chest">>, << >>, <<"chest", "arm">> >>,
       << <<"arm">>, <<"back">>, << >>, <<"calves">> >> >>

\* self.config['scoring_weights'], in thousandths of a point
scoring_weights ==
    [primary_muscle        |-> [base_score |-> 10000],
     secondary_muscle      |-> [base_score |-> 3000],
     common_exercise_bonus |-> [score |-> 2000]]

\* self.config['position_scores'][table]['scores'][position], in thousandths
position_scores(table, position) ==
    CASE table = "major_muscle" -> 1000 * (5 - position)
      [] table = "minor_muscle" -> 1000 * (1 + position)
      [] table = "compound"     -> 1000 * (4 - position)
      [] table = "isolation"    -> 1000 * position
      [] table = "free_weight"  -> 1000 * (2 - (position \div 2))
      [] table = "equipment"    -> 1000 * ((position + 1) \div 2)

\* self.config['diversity_rules']
diversity_rules ==
    [balance_threshold |-> 2,
     balance_penalty   |-> -3000,
     penalties |-> [same_family |-> -5000, weekly_repeat |-> -8000,
                    same_muscle_group |-> -1000]]

(***************************************************************************)
(* Scoring model (base_selector.py).                                       *)
(***************************************************************************)
\* round(x, 2) on thousandths: the nearest hundredth, halves to even
Round2(x) ==
    LET q == x \div 10
        r == x % 10
    IN  IF r < 5 THEN 10 * q
        ELSE IF r > 5 THEN 10 * (q + 1)
        ELSE IF q % 2 = 0 THEN 10 * q ELSE 10 * (q + 1)

RECURSIVE SumSeq(_)
\* sum(...) over a list of numbers
SumSeq(s) == IF s = << >> THEN 0 ELSE Head(s) + SumSeq(Tail(s))

(***************************************************************************)
(* IEEE-754 double addition of hundredths.  The value of [n, e] is         *)
(* n / 1000 + e * 2^-59 / 25, n a multiple of 10.                          *)
(***************************************************************************)
RECURSIVE Pow2(_)
\* 2^k, by squaring
Pow2(k) ==
    IF k = 0 THEN 1
    ELSE IF k % 2 = 1 THEN 2 * Pow2(k - 1)
    ELSE LET half == Pow2(k \div 2) IN half * half

RECURSIVE Pow2Mod(_, _)
\* 2^k modulo m, by squaring
Pow2Mod(k, m) ==
    IF k = 0 THEN 1 % m
    ELSE IF k % 2 = 1 THEN (2 * Pow2Mod(k - 1, m)) % m
    ELSE LET half == Pow2Mod(k \div 2, m) IN (half * half) % m

\* the powers of two the roundings below need, computed once
PowersOf2 == [k \in 0 .. 17 |-> Pow2(k)]

\* 2^k modulo 50 for the exponents the roundings below need
PowersOf2Mod50 == [k \in 40 .. 57 |-> Pow2Mod(k, 50)]

\* a hundredths is at least 2^p
AtLeastPow2(a, p) ==
    IF p >= 0 THEN a >= 100 * PowersOf2[p] ELSE a * PowersOf2[-p] >= 100

\* a hundredths is 2^p
IsPow2(a, p) ==
    IF p >= 0 THEN a = 100 * PowersOf2[p] ELSE a * PowersOf2[-p] = 100

\* the binary exponent of a hundredths: 2^p <= a / 100 < 2^(p + 1)
Binade(a) == CHOOSE p \in -7 .. 10 : AtLeastPow2(a, p) /\ ~AtLeastPow2(a, p + 1)

\* the double nearest to the real number [n, e], ties to the even
\* significand: what one float operation returns for an exact result
RoundToDouble(x) ==
    LET h == x.n \div 10
    IN  IF h = 0 THEN x
        ELSE LET sg == IF h > 0 THEN 1 ELSE -1
                 a == sg * h
                 se == sg * x.e
                 p0 == Binade(a)
                 p == IF IsPow2(a, p0) /\ se < 0 THEN p0 - 1 ELSE p0
                 k == PowersOf2[p + 7]
                 \* the spacing of the doubles in [2^p, 2^(p + 1))
                 ulp == 25 * k
                 m2 == (k * (((a % 50) * PowersOf2Mod50[50 - p]) % 50) + se) % (2 * ulp)
                 r == m2 % ulp
                 odd == m2 >= ulp
                 up == 2 * r > ulp \/ (2 * r = ulp /\ odd)
                 se2 == IF up THEN se + (ulp - r) ELSE se - r
             IN  [n |-> x.n, e |-> sg * se2]

\* the double a score rounded to hundredths is stored as
FloatOf(n) == RoundToDouble([n |-> n, e |-> 0])

\* x + y on doubles
FloatAdd(x, y) == RoundToDouble([n |-> x.n + y.n, e |-> x.e + y.e])

\* x > y on doubles
FloatGreater(x, y) == x.n > y.n \/ (x.n = y.n /\ x.e > y.e)

\* x < y on doubles
FloatLess(x, y) == FloatGreater(y, x)

\* the int 0 that sum() starts from
FloatZero == [n |-> 0, e |-> 0]

RECURSIVE FloatSumFrom(_, _, _)
FloatSumFrom(acc, s, k) ==
    IF k > Len(s) THEN acc ELSE FloatSumFrom(FloatAdd(acc, FloatOf(s[k])), s, k + 1)

\* sum(...) over a list of scores rounded to hundredths: left to right
FloatSum(s) == FloatSumFrom(FloatZero, s, 1)

\* a lookup that gives an unmapped muscle no coefficient at all
PreferenceWithoutDefault(preferences, muscle) ==
    LET cats == {c \in DOMAIN preference_mapping : muscle \in preference_mapping[c]}
    IN  IF cats = {} THEN 0
        ELSE LET category == CHOOSE c \in cats : TRUE
             IN  IF category \in DOMAIN preferences THEN preferences[category] ELSE 0

\* BaseSelector._get_muscle_preference over a table of coefficients, in tenths
PreferenceOf(preferences, muscle) ==
    LET cats == {c \in DOMAIN preference_mapping : muscle \in preference_mapping[c]}
    IN  IF cats = {} THEN 10
        ELSE LET category == CHOOSE c \in cats : TRUE
             IN  IF category \in DOMAIN preferences THEN preferences[category] ELSE 10

\* BaseSelector._get_muscle_preference, in tenths
_get_muscle_preference(muscle) == PreferenceOf(MUSCLE_PREFERENCES, muscle)

\* the share of one muscle list in the static score, over a table of
\* coefficients
ShareOf(preferences, muscles, base_score) ==
    IF muscles = << >> THEN 0
    ELSE LET score_per_muscle == base_score \div Len(muscles)
         IN  SumSeq([k \in 1 .. Len(muscles) |->
                 (score_per_muscle * PreferenceOf(preferences, muscles[k])) \div 10])

\* the share of one muscle list in the static score
MuscleShare(muscles, base_score) == ShareOf(MUSCLE_PREFERENCES, muscles, base_score)

\* BaseSelector._calculate_static_score over a table of coefficients
StaticScoreOf(preferences, pk) ==
    ShareOf(preferences, primaryMuscles(pk),
            scoring_weights.primary_muscle.base_score)
    + ShareOf(preferences, secondaryMuscles(pk),
              scoring_weights.secondary_muscle.base_score)
    + (IF pk \in classifications.common.Common
       THEN scoring_weights.common_exercise_bonus.score ELSE 0)

\* BaseSelector._calculate_static_score
_calculate_static_score(pk) == StaticScoreOf(MUSCLE_PREFERENCES, pk)

\* BaseSelector._get_exercise_family: the family of an id, or "" for None
_get_exercise_family(exercise_id) ==
    LET fams == {f \in DOMAIN classifications.family :
                    exercise_id \in classifications.family[f]}
    IN  IF fams = {} THEN "" ELSE CHOOSE f \in fams : TRUE

\* the pks of a list of exercise records
Pks(selected_exercises) ==
    {selected_exercises[k].pk : k \in 1 .. Len(selected_exercises)}

\* how many records of the list have their pk in the bucket
CountIn(selected_exercises, bucket) ==
    Cardinality({k \in 1 .. Len(selected_exercises) :
                    selected_exercises[k].pk \in bucket})

\* the two buckets of a balance dimension: the one whose picks the code
\* counts, and the other
CountedSide(dimension) ==
    CASE dimension = "single"   -> classifications.single.bilateral
      [] dimension = "compound" -> classifications.compound.compound
      [] dimension = "machine"  -> classifications.machine.equipment

OtherSide(dimension) ==
    CASE dimension = "single"   -> classifications.single.single_sided
      [] dimension = "compound" -> classifications.compound.isolation
      [] dimension = "machine"  -> classifications.machine.free

BalanceDimensions == {"single", "compound", "machine"}

\* a balance rule that counts, for a candidate of the other bucket, the
\* picks of that bucket
BalanceOfOwnSide(exercise_id, selected_exercises, dimension) ==
    LET threshold == diversity_rules.balance_threshold
        penalty == diversity_rules.balance_penalty
    IN  IF /\ exercise_id \in CountedSide(dimension)
           /\ CountIn(selected_exercises, CountedSide(dimension)) >= threshold
        THEN penalty
        ELSE IF /\ exercise_id \in OtherSide(dimension)
                /\ CountIn(selected_exercises, OtherSide(dimension)) >= threshold
        THEN penalty ELSE 0

\* _calculate_dynamic_score, one "if ... elif ..." of lines 254-267: the
\* balance penalty of one dimension
BalancePenalty(exercise_id, selected_exercises, dimension) ==
    LET count == CountIn(selected_exercises, CountedSide(dimension))
        threshold == diversity_rules.balance_threshold
        penalty == diversity_rules.balance_penalty
    IN  IF exercise_id \in CountedSide(dimension) /\ count >= threshold
        THEN penalty
        ELSE IF /\ exercise_id \in OtherSide(dimension)
                /\ (Len(selected_exercises) - count) >= threshold
        THEN penalty ELSE 0

\* _calculate_dynamic_score, lines 227-267: the diversity balance
DiversityBalance(exercise_id, selected_exercises) ==
    BalancePenalty(exercise_id, selected_exercises, "single")
    + BalancePenalty(exercise_id, selected_exercises, "compound")
    + BalancePenalty(exercise_id, selected_exercises, "machine")

\* a penalty that is applied once, however many labels overlap
OverlapCountedOnce(exercise_id, selected_exercises) ==
    IF \E g \in DOMAIN category_mapping :
           /\ exercise_id \in category_mapping[g]
           /\ Pks(selected_exercises) \cap category_mapping[g] # {}
    THEN diversity_rules.penalties.same_muscle_group ELSE 0

\* _calculate_dynamic_score, lines 233-238 and 280-284: the muscle group
\* overlap penalty
MuscleGroupOverlap(exercise_id, selected_exercises) ==
    LET selected_muscle_groups ==
            {g \in DOMAIN category_mapping :
                Pks(selected_exercises) \cap category_mapping[g] # {}}
        muscle_group_overlap ==
            Cardinality({g \in selected_muscle_groups :
                            exercise_id \in category_mapping[g]})
    IN  IF muscle_group_overlap > 0
        THEN diversity_rules.penalties.same_muscle_group * muscle_group_overlap
        ELSE 0

\* BaseSelector._calculate_dynamic_score
_calculate_dynamic_score(exercise_id, position, selected_exercises, selected_families, global_selected_ids) ==
    LET cls == classifications
        layer1 ==
            (IF exercise_id \in cls.major.Major
                THEN position_scores("major_muscle", position)
             ELSE IF exercise_id \in cls.major.Minor
                THEN position_scores("minor_muscle", position) ELSE 0)
          + (IF exercise_id \in cls.compound.compound
                THEN position_scores("compound", position)
             ELSE IF exercise_id \in cls.compound.isolation
                THEN position_scores("isolation", position) ELSE 0)
          + (IF exercise_id \in cls.machine.free
                THEN position_scores("free_weight", position)
             ELSE IF exercise_id \in cls.machine.equipment
                THEN position_scores("equipment", position) ELSE 0)
        family == _get_exercise_family(exercise_id)
    IN  layer1
        + DiversityBalance(exercise_id, selected_exercises)
        + (IF family # "" /\ family \in selected_families
           THEN diversity_rules.penalties.same_family ELSE 0)
        + (IF exercise_id \in global_selected_ids
           THEN diversity_rules.penalties.weekly_repeat ELSE 0)
        + MuscleGroupOverlap(exercise_id, selected_exercises)

(***************************************************************************)
(* Candidate pool resolution (base_selector.py).                           *)
(***************************************************************************)
RECURSIVE SetIterationOrder(_)
\* the order in which a set of small non-negative ints is iterated: ascending
SetIterationOrder(S) ==
    IF S = {} THEN << >>
    ELSE LET m == CHOOSE x \in S : \A y \in S : x <= y
         IN  <<m>> \o SetIterationOrder(S \ {m})

\* a lookup that finds an exercise for every id
FindsEveryId(exercise_id) == TRUE

\* BaseSelector._get_exercise_by_id: TRUE when the corpus holds the id
_get_exercise_by_id(exercise_id) == exercise_id \in ExercisePks

\* _get_candidate_exercises, lines 143-155: the ids the labels name, or the
\* whole corpus when they name none or the label is "all"
ResolveExerciseIds(muscle_groups) ==
    LET mapped == UNION {category_mapping[muscle_groups[k]] :
                            k \in {j \in 1 .. Len(muscle_groups) :
                                      muscle_groups[j] \in DOMAIN category_mapping}}
    IN  IF mapped = {} \/ muscle_groups = <<"all">> THEN ExercisePks ELSE mapped

\* the candidates dict of a set of ids, as the list of its items
\* [pk, static_score] in insertion order
CandidatesDict(valid) ==
    LET order == SetIterationOrder(valid)
    IN  [k \in 1 .. Len(order) |->
            [pk |-> order[k], static_score |-> _calculate_static_score(order[k])]]

\* a pool resolution that also drops the ids already selected this week
CandidatesWithoutWeeklyIds(muscle_groups, global_selected_ids, EXCLUDED_EXERCISES) ==
    CandidatesDict({id \in ResolveExerciseIds(muscle_groups) :
                       /\ _get_exercise_by_id(id)
                       /\ id \notin EXCLUDED_EXERCISES
                       /\ id \notin global_selected_ids})

\* a pool resolution that does not look at the exclusion set
CandidatesWithExcluded(muscle_groups, global_selected_ids, EXCLUDED_EXERCISES) ==
    CandidatesDict({id \in ResolveExerciseIds(muscle_groups) :
                       _get_exercise_by_id(id)})

\* a pool resolution that turns to the whole corpus again when the exclusions
\* leave no candidate
CandidatesWidenedWhenEmpty(muscle_groups, global_selected_ids, EXCLUDED_EXERCISES) ==
    LET valid == {id \in ResolveExerciseIds(muscle_groups) :
                     /\ _get_exercise_by_id(id)
                     /\ id \notin EXCLUDED_EXERCISES}
    IN  CandidatesDict(IF valid = {} THEN ExercisePks \ EXCLUDED_EXERCISES
                       ELSE valid)

\* BaseSelector._get_candidate_exercises(muscle_groups, global_selected_ids);
\* the third parameter is self.EXCLUDED_EXERCISES
_get_candidate_exercises(muscle_groups, global_selected_ids, EXCLUDED_EXERCISES) ==
    CandidatesDict({id \in ResolveExerciseIds(muscle_groups) :
                       /\ _get_exercise_by_id(id)
                       /\ id \notin EXCLUDED_EXERCISES})

\* candidates[exercise_id]['static_score']
StaticOf(candidates, exercise_id) ==
    LET k == CHOOSE j \in 1 .. Len(candidates) : candidates[j].pk = exercise_id
    IN  candidates[k].static_score

\* the exercise_with_score record both selectors build
ExerciseWithScore(pk, static_score, dynamic_score, total_score, position) ==
    [pk            |-> pk,
     static_score  |-> Round2(static_score),
     dynamic_score |-> Round2(dynamic_score),
     score         |-> Round2(total_score),
     position      |-> position + 1]

\* the decimal value of sum(ex['score'] for ex in solution)
TotalScore(solution) == SumSeq([k \in 1 .. Len(solution) |-> solution[k].score])

\* sum(ex['score'] for ex in solution), the double the code computes
FloatTotal(solution) == FloatSum([k \in 1 .. Len(solution) |-> solution[k].score])

(***************************************************************************)
(* HybridSelector._build_solution                                          *)
(***************************************************************************)
RECURSIVE BuildFrom(_, _, _, _, _)
BuildFrom(exercise_ids, candidates, global_selected_ids, selected_exercises, selected_families) ==
    IF Len(selected_exercises) = Len(exercise_ids) THEN selected_exercises
    ELSE LET position == Len(selected_exercises)
             exercise_id == exercise_ids[position + 1]
             dynamic_score == _calculate_dynamic_score(exercise_id, position,
                                  selected_exercises, selected_families,
                                  global_selected_ids)
             static_score == StaticOf(candidates, exercise_id)
             family == _get_exercise_family(exercise_id)
         IN  BuildFrom(exercise_ids, candidates, global_selected_ids,
                 Append(selected_exercises,
                        ExerciseWithScore(exercise_id, static_score, dynamic_score,
                                          static_score + dynamic_score, position)),
                 IF family # "" THEN selected_families \cup {family}
                 ELSE selected_families)

_build_solution(exercise_ids, candidates, global_selected_ids) ==
    BuildFrom(exercise_ids, candidates, global_selected_ids, << >>, {})

(***************************************************************************)
(* itertools.combinations and itertools.permutations, as index tuples in   *)
(* the order the iterators emit them.                                      *)
(***************************************************************************)
RECURSIVE CombinationsFrom(_, _, _)
\* the k-subsets of lo..n as increasing tuples, in lexicographic order
CombinationsFrom(lo, n, k) ==
    IF k = 0 THEN << << >> >>
    ELSE IF n - lo + 1 < k THEN << >>
    ELSE LET with == CombinationsFrom(lo + 1, n, k - 1)
         IN  [j \in 1 .. Len(with) |-> <<lo>> \o with[j]]
             \o CombinationsFrom(lo + 1, n, k)

RECURSIVE PermutationsOf(_)
RECURSIVE PermutationsFromIndex(_, _)
\* the permutations of tuple t whose first element is t[i], t[i+1], ...
PermutationsFromIndex(t, i) ==
    IF i > Len(t) THEN << >>
    ELSE LET rest == SubSeq(t, 1, i - 1) \o SubSeq(t, i + 1, Len(t))
             tails == PermutationsOf(rest)
         IN  [j \in 1 .. Len(tails) |-> <<t[i]>> \o tails[j]]
             \o PermutationsFromIndex(t, i + 1)

PermutationsOf(t) ==
    IF t = << >> THEN << << >> >> ELSE PermutationsFromIndex(t, 1)

\* permutations(range(5)): evaluated once
Permutations5 == PermutationsOf([k \in 1 .. FIXED_K |-> k])

\* for combo in combinations(range(n), 5): for perm in permutations(combo):
\* the index tuples the two nested loops visit, in order, for every pool
\* size n (evaluated once)
Orderings5 ==
    [n \in 0 .. (NumExercises + 1) |->
        LET combos == CombinationsFrom(1, n, FIXED_K)
            np == Len(Permutations5)
        IN  [k \in 1 .. (Len(combos) * np) |->
                LET combo == combos[((k - 1) \div np) + 1]
                    perm == Permutations5[((k - 1) % np) + 1]
                IN  [i \in 1 .. FIXED_K |-> combo[perm[i]]]]]

(***************************************************************************)
(* HybridSelector._exhaustive_search: the two nested loops.  best is       *)
(* [result, total]: best_result and best_total_score.                      *)
(***************************************************************************)
\* the test with the comparison inverted
ExhaustiveKeepsLower(perm_score, best_total_score) == FloatLess(perm_score, best_total_score)

\* "if perm_score > best_total_score": the test that replaces the best
ExhaustiveImproves(perm_score, best_total_score) == FloatGreater(perm_score, best_total_score)

\* lines 93-95: build and evaluate the k-th ordering
Evaluate(k, candidates, global_selected_ids) ==
    LET ordering == Orderings5[Len(candidates)][k]
        perm == [i \in 1 .. FIXED_K |-> candidates[ordering[i]].pk]
        perm_result == _build_solution(perm, candidates, global_selected_ids)
    IN  [result |-> perm_result, total |-> FloatTotal(perm_result)]

RECURSIVE BestOfRange(_, _, _, _)
\* what the loops leave in best after the orderings lo..hi, starting from
\* nothing: a later ordering replaces an earlier one only when the test
\* holds.  The range is halved to keep the evaluation shallow.
BestOfRange(lo, hi, candidates, global_selected_ids) ==
    IF lo = hi THEN Evaluate(lo, candidates, global_selected_ids)
    ELSE LET mid == (lo + hi) \div 2
             first == BestOfRange(lo, mid, candidates, global_selected_ids)
             second == BestOfRange(mid + 1, hi, candidates, global_selected_ids)
         IN  IF ExhaustiveImproves(second.total, first.total) THEN second ELSE first

\* lines 79-102 of _exhaustive_search, for a pool of at least 5
ExhaustiveBest(candidates, global_selected_ids) ==
    BestOfRange(1, Len(Orderings5[Len(candidates)]), candidates,
                global_selected_ids).result

(***************************************************************************)
(* One position of the greedy loops: the scan over the candidates.  best   *)
(* is [id, score, dynamic]: best_exercise_id, best_score and               *)
(* best_dynamic_score.                                                     *)
(***************************************************************************)
\* a scan that skips nothing
SkipsNothing(exercise_id, selected_ids) == FALSE

\* greedy_selector.py "if exercise_id in selected_ids: continue"
GreedySelectorSkips(exercise_id, selected_ids) == exercise_id \in selected_ids

\* hybrid_selector.py "if exercise_id in selected_ids: continue"
HybridGreedySkips(exercise_id, selected_ids) == exercise_id \in selected_ids

RECURSIVE GreedySelectorScan(_, _, _, _, _, _, _, _)
\* GreedySelector._select_exercises_for_day: for exercise_id, data in candidates
GreedySelectorScan(k, candidates, position, selected_exercises, selected_ids, selected_families, global_selected_ids, best) ==
    IF k > Len(candidates) THEN best
    ELSE LET exercise_id == candidates[k].pk
             dynamic_score == _calculate_dynamic_score(exercise_id, position,
                                  selected_exercises, selected_families,
                                  global_selected_ids)
             total_score == candidates[k].static_score + dynamic_score
         IN  GreedySelectorScan(k + 1, candidates, position, selected_exercises,
                 selected_ids, selected_families, global_selected_ids,
                 IF ~GreedySelectorSkips(exercise_id, selected_ids)
                    /\ total_score > best.score
                 THEN [id |-> exercise_id, score |-> total_score,
                       dynamic |-> dynamic_score]
                 ELSE best)

RECURSIVE HybridGreedyScan(_, _, _, _, _, _, _, _)
\* HybridSelector._greedy_search: for exercise_id, data in candidates
HybridGreedyScan(k, candidates, position, selected_exercises, selected_ids, selected_families, global_selected_ids, best) ==
    IF k > Len(candidates) THEN best
    ELSE LET exercise_id == candidates[k].pk
             dynamic_score == _calculate_dynamic_score(exercise_id, position,
                                  selected_exercises, selected_families,
                                  global_selected_ids)
             total_score == candidates[k].static_score + dynamic_score
         IN  HybridGreedyScan(k + 1, candidates, position, selected_exercises,
                 selected_ids, selected_families, global_selected_ids,
                 IF ~HybridGreedySkips(exercise_id, selected_ids)
                    /\ total_score > best.score
                 THEN [id |-> exercise_id, score |-> total_score,
                       dynamic |-> dynamic_score]
                 ELSE best)

\* best_exercise_id = None; best_score = float('-inf'); best_dynamic_score = 0
NoBest == [id |-> NONE_ID, score |-> NEG_INF, dynamic |-> 0]

\* "if best_exercise_id:": the truth value of an id that may be None
Truthy(best_exercise_id) == best_exercise_id # NONE_ID /\ best_exercise_id # 0

\* selected_exercises = []; selected_ids = set(); selected_families = set()
NoPicks == [selected_exercises |-> << >>, selected_ids |-> {},
            selected_families |-> {}]

\* "if best_exercise_id:" and its block: the three locals after a position
\* whose scan ended with best.  A falsy best id leaves them as they are.
AddBest(best, candidates, position, picks) ==
    IF Truthy(best.id)
    THEN [selected_exercises |->
             Append(picks.selected_exercises,
                    ExerciseWithScore(best.id, StaticOf(candidates, best.id),
                                      best.dynamic, best.score, position)),
          selected_ids |-> picks.selected_ids \cup {best.id},
          selected_families |->
             IF _get_exercise_family(best.id) # ""
             THEN picks.selected_families \cup {_get_exercise_family(best.id)}
             ELSE picks.selected_families]
    ELSE picks

\* GreedySelector._select_exercises_for_day, lines 49-98: one position
GreedySelectorStep(candidates, position, picks, global_selected_ids) ==
    AddBest(GreedySelectorScan(1, candidates, position, picks.selected_exercises,
                picks.selected_ids, picks.selected_families,
                global_selected_ids, NoBest),
            candidates, position, picks)

\* one position of a greedy search that is not given the weekly ids
StepWithoutWeeklyIds(candidates, position, picks, global_selected_ids) ==
    GreedySelectorStep(candidates, position, picks, {})

\* HybridSelector._greedy_search, lines 123-168: one position
HybridGreedyStep(candidates, position, picks, global_selected_ids) ==
    AddBest(HybridGreedyScan(1, candidates, position, picks.selected_exercises,
                picks.selected_ids, picks.selected_families,
                global_selected_ids, NoBest),
            candidates, position, picks)

RECURSIVE GreedySearchFrom(_, _, _, _, _)
\* the positions from the given one on, up to exercises_per_day
GreedySearchFrom(position, picks, candidates, global_selected_ids, exercises_per_day) ==
    IF position >= exercises_per_day THEN picks.selected_exercises
    ELSE GreedySearchFrom(position + 1,
             HybridGreedyStep(candidates, position, picks, global_selected_ids),
             candidates, global_selected_ids, exercises_per_day)

\* HybridSelector._greedy_search as a whole; the third parameter is
\* self.config['algorithm_params']['exercises_per_day']
_greedy_search(candidates, global_selected_ids, exercises_per_day) ==
    GreedySearchFrom(0, NoPicks, candidates, global_selected_ids,
                     exercises_per_day)

(***************************************************************************)
(* HybridSelector._two_opt_improvement: one pass of the while loop.        *)
(***************************************************************************)
\* for i in range(5): for j in range(i + 1, 5), as the list of (i, j)
SwapPairs ==
    LET pairs == {p \in (0 .. FIXED_K - 1) \X (0 .. FIXED_K - 1) : p[1] < p[2]}
        Before(p, q) == p[1] < q[1] \/ (p[1] = q[1] /\ p[2] < q[2])
    IN  [k \in 1 .. Cardinality(pairs) |->
            CHOOSE p \in pairs : Cardinality({q \in pairs : Before(q, p)}) = k - 1]

\* an assignment of one side only: position i takes the id of position j
OverwritesOnePosition(exercise_ids, i, j) ==
    [k \in 1 .. Len(exercise_ids) |->
        IF k = i + 1 THEN exercise_ids[j + 1] ELSE exercise_ids[k]]

\* exercise_ids[i], exercise_ids[j] = exercise_ids[j], exercise_ids[i]
Swapped(exercise_ids, i, j) ==
    [k \in 1 .. Len(exercise_ids) |->
        IF k = i + 1 THEN exercise_ids[j + 1]
        ELSE IF k = j + 1 THEN exercise_ids[i + 1]
        ELSE exercise_ids[k]]

\* the test with the comparison inverted
AcceptsLowerScore(new_score, current_score) == FloatLess(new_score, current_score)

\* "if new_score > current_score": the test that accepts a swap
AcceptsSwap(new_score, current_score) == FloatGreater(new_score, current_score)

RECURSIVE PairScanNoBreak(_, _, _, _, _)
\* a scan that goes on after an accepted swap, from the swapped solution,
\* to the last pair of the pass
PairScanNoBreak(k, current_solution, current_score, candidates, global_selected_ids) ==
    IF k > Len(SwapPairs)
    THEN [kind |-> "none", solution |-> current_solution,
          score |-> current_score, pair |-> 0]
    ELSE LET i == SwapPairs[k][1]
             j == SwapPairs[k][2]
             exercise_ids == [n \in 1 .. Len(current_solution) |->
                                 current_solution[n].pk]
         IN  IF j >= Len(exercise_ids)
             THEN [kind |-> "IndexError", solution |-> current_solution,
                   score |-> current_score, pair |-> k]
             ELSE LET new_solution == _build_solution(Swapped(exercise_ids, i, j),
                                          candidates, global_selected_ids)
                      new_score == FloatTotal(new_solution)
                  IN  IF AcceptsSwap(new_score, current_score)
                      THEN LET rest == PairScanNoBreak(k + 1, new_solution, new_score,
                                           candidates, global_selected_ids)
                           IN  IF rest.kind = "IndexError" THEN rest
                               ELSE [rest EXCEPT !.kind = "accepted",
                                                 !.pair = IF rest.pair = 0 THEN k
                                                          ELSE rest.pair]
                      ELSE PairScanNoBreak(k + 1, current_solution, current_score,
                                           candidates, global_selected_ids)

RECURSIVE PairScan(_, _, _, _, _)
\* the scan of one pass from the k-th pair on.  The outcome is
\* [kind, solution, score, pair]: "accepted" (the first improving swap),
\* "none" (the pass ends without one) or "IndexError" (a pair names a
\* position the solution does not have).
PairScan(k, current_solution, current_score, candidates, global_selected_ids) ==
    IF k > Len(SwapPairs)
    THEN [kind |-> "none", solution |-> current_solution,
          score |-> current_score, pair |-> 0]
    ELSE LET i == SwapPairs[k][1]
             j == SwapPairs[k][2]
             exercise_ids == [n \in 1 .. Len(current_solution) |->
                                 current_solution[n].pk]
         IN  IF j >= Len(exercise_ids)
             THEN [kind |-> "IndexError", solution |-> current_solution,
                   score |-> current_score, pair |-> k]
             ELSE LET new_solution == _build_solution(Swapped(exercise_ids, i, j),
                                          candidates, global_selected_ids)
                      new_score == FloatTotal(new_solution)
                  IN  IF AcceptsSwap(new_score, current_score)
                      THEN [kind |-> "accepted", solution |-> new_solution,
                            score |-> new_score, pair |-> k]
                      ELSE PairScan(k + 1, current_solution, current_score,
                                    candidates, global_selected_ids)

(***************************************************************************)
(* State.  The selector object and its configuration are shared by every   *)
(* call; the other variables are the locals of one generate_weekly_plan    *)
(* call, indexed by the call.                                              *)
(***************************************************************************)
VARIABLES
    selector_class,        \* "GreedySelector" or "HybridSelector"
    TRAINING_DAYS,         \* self.TRAINING_DAYS
    EXCLUDED_EXERCISES,    \* self.EXCLUDED_EXERCISES
    algorithm_params,      \* self.config['algorithm_params']
    pc,                    \* where each call stands
    day_index,             \* generate_weekly_plan: enumerate(template)
    global_selected_ids,   \* generate_weekly_plan: the weekly id set
    weekly_plan,           \* generate_weekly_plan: the DayPlans so far
    candidates,            \* _select_exercises_for_day: list of [pk, static_score]
    position,              \* greedy loops: range(exercises_per_day)
    selected_exercises,    \* greedy loops
    selected_ids,          \* greedy loops
    selected_families,     \* greedy loops
    current_solution,      \* _two_opt_improvement
    current_score,         \* _two_opt_improvement
    improved,              \* _two_opt_improvement
    iterations,            \* _two_opt_improvement
    exercises_with_scores, \* what _select_exercises_for_day returned
    day_log                \* history: per day, the pool, the weekly ids it was
                           \* planned with and the strategies that ran

selector_vars == <<selector_class, TRAINING_DAYS, EXCLUDED_EXERCISES, algorithm_params, MUSCLE_PREFERENCES>>
week_vars == <<day_index, global_selected_ids, weekly_plan>>
greedy_vars == <<position, selected_exercises, selected_ids, selected_families>>
two_opt_vars == <<current_solution, current_score, improved, iterations>>
vars == <<selector_vars, pc, week_vars, candidates, greedy_vars, two_opt_vars,
          exercises_with_scores, day_log>>

Calls == 1 .. MaxCalls

\* the values the configuration is drawn from
ExercisesPerDayValues == {4, 5, 6}
ThresholdValues == {2, 6}
MaxIterationsValues == {1, 3}
TrainingDaysValues == 1 .. 5
ExclusionValues == {{}, {3}}

\* a call that has returned or raised
Finished(c) == pc[c] \in {"done", "KeyError", "IndexError"}

\* calls on one selector follow one another
MayStart(c) == IF c = 1 THEN TRUE ELSE Finished(c - 1)

\* template = self.training_templates[str(self.TRAINING_DAYS)]
template == training_templates[TRAINING_DAYS]

\* a weekly set that outlives the call: what the calls made so far have put
\* in theirs
SharedGlobalSelectedIds == UNION {global_selected_ids[c] : c \in Calls}

\* global_selected_ids = set()
NewGlobalSelectedIds == {}

\* no call of generate_weekly_plan has been made on the selector
NoCallMade ==
    /\ pc = [c \in Calls |-> "idle"]
    /\ day_index = [c \in Calls |-> 0]
    /\ global_selected_ids = [c \in Calls |-> {}]
    /\ weekly_plan = [c \in Calls |-> << >>]
    /\ candidates = [c \in Calls |-> << >>]
    /\ position = [c \in Calls |-> 0]
    /\ selected_exercises = [c \in Calls |-> << >>]
    /\ selected_ids = [c \in Calls |-> {}]
    /\ selected_families = [c \in Calls |-> {}]
    /\ current_solution = [c \in Calls |-> << >>]
    /\ current_score = [c \in Calls |-> FloatZero]
    /\ improved = [c \in Calls |-> FALSE]
    /\ iterations = [c \in Calls |-> 0]
    /\ exercises_with_scores = [c \in Calls |-> << >>]
    /\ day_log = [c \in Calls |-> << >>]

Init ==
    /\ selector_class \in {"GreedySelector", "HybridSelector"}
    /\ TRAINING_DAYS \in TrainingDaysValues
    /\ EXCLUDED_EXERCISES \in ExclusionValues
    /\ MUSCLE_PREFERENCES = ClassMusclePreferences
    /\ algorithm_params \in
          [exercises_per_day : ExercisesPerDayValues,
           exhaustive_threshold : ThresholdValues,
           max_2opt_iterations : MaxIterationsValues]
    \* GreedySelector reads neither the threshold nor the pass limit
    /\ selector_class = "GreedySelector" =>
          /\ algorithm_params.exhaustive_threshold = 6
          /\ algorithm_params.max_2opt_iterations = 3
    /\ NoCallMade

(***************************************************************************)
(* BaseSelector.generate_weekly_plan                                       *)
(***************************************************************************)
\* a lookup that finds a template for every day count
AlwaysHasTemplate(days) == TRUE

\* self.training_templates[str(self.TRAINING_DAYS)]: the key is present
HasTemplate(days) == days \in DOMAIN training_templates

\* lines 95-97: the template lookup and the fresh locals.  Calls on one
\* selector follow one another.
Call(c) ==
    /\ pc[c] = "idle"
    /\ MayStart(c)
    /\ HasTemplate(TRAINING_DAYS)
    /\ pc' = [pc EXCEPT ![c] = "day_loop"]
    /\ day_index' = [day_index EXCEPT ![c] = 0]
    /\ global_selected_ids' = [global_selected_ids EXCEPT ![c] = NewGlobalSelectedIds]
    /\ weekly_plan' = [weekly_plan EXCEPT ![c] = << >>]
    /\ UNCHANGED <<selector_vars, candidates, greedy_vars, two_opt_vars,
                   exercises_with_scores, day_log>>

\* line 95 with no template for the day count: the lookup raises KeyError
CallKeyError(c) ==
    /\ pc[c] = "idle"
    /\ MayStart(c)
    /\ ~HasTemplate(TRAINING_DAYS)
    /\ pc' = [pc EXCEPT ![c] = "KeyError"]
    /\ UNCHANGED <<selector_vars, week_vars, candidates, greedy_vars, two_opt_vars,
                   exercises_with_scores, day_log>>

\* the muscle groups of the day the loop is at
muscle_groups(c) == template[day_index[c] + 1]

\* a loop that takes no day for a rest day
NeverRestDay(groups) == FALSE

\* "if not muscle_groups:": the day is a rest day
IsRestDay(groups) == groups = << >>

\* a loop that does not record the day's picks
FoldsNothing(weekly_ids, day_exercises) == weekly_ids

\* "for ex in exercises_with_scores: global_selected_ids.add(ex['pk'])"
FoldDayIds(weekly_ids, day_exercises) == weekly_ids \cup Pks(day_exercises)

\* lines 102-109: a rest day
RestDay(c) ==
    /\ pc[c] = "day_loop"
    /\ day_index[c] < Len(template)
    /\ IsRestDay(muscle_groups(c))
    /\ weekly_plan' = [weekly_plan EXCEPT ![c] =
          Append(@, [type |-> <<"Rest Day">>, exercises |-> << >>, total_score |-> 0])]
    /\ day_index' = [day_index EXCEPT ![c] = @ + 1]
    /\ day_log' = [day_log EXCEPT ![c] =
          Append(@, [pool |-> {}, weekly_ids |-> global_selected_ids[c],
                     strategies |-> << >>])]
    /\ UNCHANGED <<selector_vars, pc, global_selected_ids, candidates, greedy_vars,
                   two_opt_vars, exercises_with_scores>>

\* the log entry of a training day whose pool has just been resolved
NewLogEntry(c, cands, first_strategy) ==
    Append(day_log[c],
           [pool |-> {cands[k].pk : k \in 1 .. Len(cands)},
            weekly_ids |-> global_selected_ids[c],
            strategies |-> <<first_strategy>>])

\* the log with one more strategy run on the day in progress
LogStrategy(c, strategy) ==
    [day_log EXCEPT ![c][Len(day_log[c])].strategies = Append(@, strategy)]

\* a start that keeps selection state on the selector: the ids and families
\* selected so far, on whichever day of whichever call
StartKeepingSelectionState(c) ==
    /\ position' = [position EXCEPT ![c] = 0]
    /\ selected_exercises' = [selected_exercises EXCEPT ![c] = << >>]
    /\ selected_ids' = [selected_ids EXCEPT ![c] =
          UNION {selected_ids[other] : other \in Calls}]
    /\ selected_families' = [selected_families EXCEPT ![c] =
          UNION {selected_families[other] : other \in Calls}]

\* the greedy locals are initialised and the position loop starts
StartGreedyLoop(c) ==
    /\ position' = [position EXCEPT ![c] = 0]
    /\ selected_exercises' = [selected_exercises EXCEPT ![c] =
          NoPicks.selected_exercises]
    /\ selected_ids' = [selected_ids EXCEPT ![c] = NoPicks.selected_ids]
    /\ selected_families' = [selected_families EXCEPT ![c] =
          NoPicks.selected_families]

\* _generate_day_type: the display names joined into the day type
_generate_day_type(groups) ==
    [k \in 1 .. Len(groups) |->
        CASE groups[k] = "chest" -> "Chest"
          [] groups[k] = "back"  -> "Back"
          [] groups[k] = "arm"   -> "Arms"
          [] groups[k] = "all"   -> "All"
          [] groups[k] = "calves" -> "Calves"
          [] OTHER -> groups[k]]

\* lines 116-128: fold the day's ids into the weekly set and emit the DayPlan
FinishDay(c) ==
    /\ pc[c] = "finish_day"
    /\ global_selected_ids' = [global_selected_ids EXCEPT ![c] =
          FoldDayIds(@, exercises_with_scores[c])]
    /\ weekly_plan' = [weekly_plan EXCEPT ![c] =
          Append(@, [type |-> _generate_day_type(muscle_groups(c)),
                     muscle_groups |-> muscle_groups(c),
                     exercises |-> exercises_with_scores[c],
                     total_score |-> Round2(FloatTotal(exercises_with_scores[c]).n)])]
    /\ day_index' = [day_index EXCEPT ![c] = @ + 1]
    /\ pc' = [pc EXCEPT ![c] = "day_loop"]
    /\ UNCHANGED <<selector_vars, candidates, greedy_vars, two_opt_vars,
                   exercises_with_scores, day_log>>

\* line 130: return weekly_plan
ReturnPlan(c) ==
    /\ pc[c] = "day_loop"
    /\ day_index[c] = Len(template)
    /\ pc' = [pc EXCEPT ![c] = "done"]
    /\ UNCHANGED <<selector_vars, week_vars, candidates, greedy_vars, two_opt_vars,
                   exercises_with_scores, day_log>>

(***************************************************************************)
(* GreedySelector._select_exercises_for_day                                *)
(***************************************************************************)
\* lines 39-46: resolve the pool and start the position loop
GreedySelectorStart(c) ==
    /\ pc[c] = "day_loop"
    /\ selector_class = "GreedySelector"
    /\ day_index[c] < Len(template)
    /\ ~IsRestDay(muscle_groups(c))
    /\ LET cands == _get_candidate_exercises(muscle_groups(c), global_selected_ids[c],
                                             EXCLUDED_EXERCISES)
       IN  /\ candidates' = [candidates EXCEPT ![c] = cands]
           /\ day_log' = [day_log EXCEPT ![c] = NewLogEntry(c, cands, "greedy")]
    /\ StartGreedyLoop(c)
    /\ pc' = [pc EXCEPT ![c] = "greedy_selector"]
    /\ UNCHANGED <<selector_vars, week_vars, two_opt_vars, exercises_with_scores>>

\* greedy locals kept on the selector: every call reads those of the first
SharedPicks(c) ==
    [selected_exercises |-> selected_exercises[1],
     selected_ids |-> selected_ids[1],
     selected_families |-> selected_families[1]]

\* the three greedy locals of a call, as one record
Picks(c) ==
    [selected_exercises |-> selected_exercises[c],
     selected_ids |-> selected_ids[c],
     selected_families |-> selected_families[c]]

\* the greedy locals of a call after one more position
AfterPosition(c, picks) ==
    /\ position' = [position EXCEPT ![c] = @ + 1]
    /\ selected_exercises' = [selected_exercises EXCEPT ![c] =
          picks.selected_exercises]
    /\ selected_ids' = [selected_ids EXCEPT ![c] = picks.selected_ids]
    /\ selected_families' = [selected_families EXCEPT ![c] =
          picks.selected_families]

\* lines 49-98: one position of the loop
GreedySelectorPosition(c) ==
    /\ pc[c] = "greedy_selector"
    /\ position[c] < algorithm_params.exercises_per_day
    /\ AfterPosition(c, GreedySelectorStep(candidates[c], position[c], Picks(c),
                                           global_selected_ids[c]))
    /\ UNCHANGED <<selector_vars, pc, week_vars, candidates, two_opt_vars,
                   exercises_with_scores, day_log>>

\* line 100: return selected_exercises
GreedySelectorReturn(c) ==
    /\ pc[c] = "greedy_selector"
    /\ position[c] >= algorithm_params.exercises_per_day
    /\ exercises_with_scores' = [exercises_with_scores EXCEPT ![c] =
          selected_exercises[c]]
    /\ pc' = [pc EXCEPT ![c] = "finish_day"]
    /\ UNCHANGED <<selector_vars, week_vars, candidates, greedy_vars, two_opt_vars,
                   day_log>>

(***************************************************************************)
(* HybridSelector._select_exercises_for_day                                *)
(***************************************************************************)
\* the routing test with a strict comparison
RoutesBelowThreshold(num_candidates, threshold) == num_candidates < threshold

\* "if num_candidates <= threshold": the routing test
RoutesToExhaustive(num_candidates, threshold) == num_candidates <= threshold

\* lines 41-52: a pool within the threshold goes to _exhaustive_search
HybridDispatchExhaustive(c) ==
    /\ pc[c] = "day_loop"
    /\ selector_class = "HybridSelector"
    /\ day_index[c] < Len(template)
    /\ ~IsRestDay(muscle_groups(c))
    /\ LET cands == _get_candidate_exercises(muscle_groups(c), global_selected_ids[c],
                                             EXCLUDED_EXERCISES)
       IN  /\ RoutesToExhaustive(Len(cands), algorithm_params.exhaustive_threshold)
           /\ candidates' = [candidates EXCEPT ![c] = cands]
           /\ day_log' = [day_log EXCEPT ![c] = NewLogEntry(c, cands, "exhaustive")]
    /\ pc' = [pc EXCEPT ![c] = "exhaustive"]
    /\ UNCHANGED <<selector_vars, week_vars, greedy_vars, two_opt_vars,
                   exercises_with_scores>>

\* lines 41-55: a larger pool goes to _greedy_search, then 2-opt
HybridDispatchGreedy(c) ==
    /\ pc[c] = "day_loop"
    /\ selector_class = "HybridSelector"
    /\ day_index[c] < Len(template)
    /\ ~IsRestDay(muscle_groups(c))
    /\ LET cands == _get_candidate_exercises(muscle_groups(c), global_selected_ids[c],
                                             EXCLUDED_EXERCISES)
       IN  /\ ~RoutesToExhaustive(Len(cands), algorithm_params.exhaustive_threshold)
           /\ candidates' = [candidates EXCEPT ![c] = cands]
           /\ day_log' = [day_log EXCEPT ![c] = NewLogEntry(c, cands, "greedy")]
    /\ StartGreedyLoop(c)
    /\ pc' = [pc EXCEPT ![c] = "greedy_search"]
    /\ UNCHANGED <<selector_vars, week_vars, two_opt_vars, exercises_with_scores>>

\* _exhaustive_search, lines 73-77: fewer than 5 candidates, fall back to
\* _greedy_search
ExhaustiveFallback(c) ==
    /\ pc[c] = "exhaustive"
    /\ Len(candidates[c]) < FIXED_K
    /\ StartGreedyLoop(c)
    /\ day_log' = LogStrategy(c, "greedy")
    /\ pc' = [pc EXCEPT ![c] = "greedy_fallback"]
    /\ UNCHANGED <<selector_vars, week_vars, candidates, two_opt_vars,
                   exercises_with_scores>>

\* _exhaustive_search, lines 79-102: the search itself
ExhaustiveSearch(c) ==
    /\ pc[c] = "exhaustive"
    /\ Len(candidates[c]) >= FIXED_K
    /\ exercises_with_scores' = [exercises_with_scores EXCEPT ![c] =
          ExhaustiveBest(candidates[c], global_selected_ids[c])]
    /\ pc' = [pc EXCEPT ![c] = "finish_day"]
    /\ UNCHANGED <<selector_vars, week_vars, candidates, greedy_vars, two_opt_vars,
                   day_log>>

\* _greedy_search, lines 123-168: one position of the loop
HybridGreedyPosition(c) ==
    /\ pc[c] \in {"greedy_search", "greedy_fallback"}
    /\ position[c] < algorithm_params.exercises_per_day
    /\ AfterPosition(c, HybridGreedyStep(candidates[c], position[c], Picks(c),
                                         global_selected_ids[c]))
    /\ UNCHANGED <<selector_vars, pc, week_vars, candidates, two_opt_vars,
                   exercises_with_scores, day_log>>

\* _greedy_search returns to _exhaustive_search, which returns its result
GreedyFallbackReturn(c) ==
    /\ pc[c] = "greedy_fallback"
    /\ position[c] >= algorithm_params.exercises_per_day
    /\ exercises_with_scores' = [exercises_with_scores EXCEPT ![c] =
          selected_exercises[c]]
    /\ pc' = [pc EXCEPT ![c] = "finish_day"]
    /\ UNCHANGED <<selector_vars, week_vars, candidates, greedy_vars, two_opt_vars,
                   day_log>>

\* _greedy_search returns to line 56; _two_opt_improvement, lines 189-195
TwoOptStart(c) ==
    /\ pc[c] = "greedy_search"
    /\ position[c] >= algorithm_params.exercises_per_day
    /\ current_solution' = [current_solution EXCEPT ![c] = selected_exercises[c]]
    /\ current_score' = [current_score EXCEPT ![c] =
          FloatTotal(selected_exercises[c])]
    /\ improved' = [improved EXCEPT ![c] = TRUE]
    /\ iterations' = [iterations EXCEPT ![c] = 0]
    /\ day_log' = LogStrategy(c, "two_opt")
    /\ pc' = [pc EXCEPT ![c] = "two_opt"]
    /\ UNCHANGED <<selector_vars, week_vars, candidates, greedy_vars,
                   exercises_with_scores>>

\* a loop that runs to the pass limit whether the last pass improved or not
ContinuesToLimit(c) == iterations[c] < algorithm_params.max_2opt_iterations

\* "while improved and iterations < max_iterations"
TwoOptContinues(c) ==
    improved[c] /\ iterations[c] < algorithm_params.max_2opt_iterations

\* the outcome of the pass the call is about to make
NextPass(c) ==
    PairScan(1, current_solution[c], current_score[c], candidates[c],
             global_selected_ids[c])

\* lines 197-221: one pass that ends normally
TwoOptPass(c) ==
    /\ pc[c] = "two_opt"
    /\ TwoOptContinues(c)
    /\ LET pass == NextPass(c)
       IN  /\ pass.kind # "IndexError"
           /\ current_solution' = [current_solution EXCEPT ![c] = pass.solution]
           /\ current_score' = [current_score EXCEPT ![c] = pass.score]
           /\ improved' = [improved EXCEPT ![c] = (pass.kind = "accepted")]
    /\ iterations' = [iterations EXCEPT ![c] = @ + 1]
    /\ UNCHANGED <<selector_vars, pc, week_vars, candidates, greedy_vars,
                   exercises_with_scores, day_log>>

\* line 206 on a solution shorter than 5: the swap raises IndexError, which
\* nothing in generate_weekly_plan catches
TwoOptIndexError(c) ==
    /\ pc[c] = "two_opt"
    /\ TwoOptContinues(c)
    /\ NextPass(c).kind = "IndexError"
    /\ pc' = [pc EXCEPT ![c] = "IndexError"]
    /\ iterations' = [iterations EXCEPT ![c] = @ + 1]
    /\ improved' = [improved EXCEPT ![c] = FALSE]
    /\ UNCHANGED <<selector_vars, week_vars, candidates, greedy_vars,
                   current_solution, current_score, exercises_with_scores, day_log>>

\* line 223: return current_solution
TwoOptReturn(c) ==
    /\ pc[c] = "two_opt"
    /\ ~TwoOptContinues(c)
    /\ exercises_with_scores' = [exercises_with_scores EXCEPT ![c] =
          current_solution[c]]
    /\ pc' = [pc EXCEPT ![c] = "finish_day"]
    /\ UNCHANGED <<selector_vars, week_vars, candidates, greedy_vars, two_opt_vars,
                   day_log>>

(***************************************************************************)
(* Specification                                                           *)
(***************************************************************************)
Next ==
    \E c \in Calls :
        \/ Call(c)
        \/ CallKeyError(c)
        \/ RestDay(c)
        \/ GreedySelectorStart(c)
        \/ GreedySelectorPosition(c)
        \/ GreedySelectorReturn(c)
        \/ HybridDispatchExhaustive(c)
        \/ HybridDispatchGreedy(c)
        \/ ExhaustiveFallback(c)
        \/ ExhaustiveSearch(c)
        \/ HybridGreedyPosition(c)
        \/ GreedyFallbackReturn(c)
        \/ TwoOptStart(c)
        \/ TwoOptPass(c)
        \/ TwoOptIndexError(c)
        \/ TwoOptReturn(c)
        \/ FinishDay(c)
        \/ ReturnPlan(c)

Spec == Init /\ [][Next]_vars

\* what every step of _two_opt_improvement does to the control state: a pass
\* (ended by an accepted swap, by the last pair or by IndexError) counts one
\* more iteration, and the return leaves the function
TwoOptAdvance ==
    \E c \in Calls :
        /\ pc[c] = "two_opt"
        /\ IF TwoOptContinues(c)
           THEN /\ iterations' = [iterations EXCEPT ![c] = @ + 1]
                /\ pc' \in {pc, [pc EXCEPT ![c] = "IndexError"]}
           ELSE /\ iterations' = iterations
                /\ pc' = [pc EXCEPT ![c] = "finish_day"]

\* the same program, run by an interpreter that does not stop in the middle
\* of _two_opt_improvement
FairSpec == Spec /\ WF_<<pc, iterations>>(TwoOptAdvance)

(***************************************************************************)
(* Properties.  A day of a call is identified by its index d in            *)
(* weekly_plan[c]; day_log[c][d] holds the pool the day was planned from,  *)
(* the weekly ids it was planned with and the strategies that ran.         *)
(***************************************************************************)
\* the days of call c that have a DayPlan
PlannedDays(c) == 1 .. Len(weekly_plan[c])

\* the training days among them
TrainingDaysPlanned(c) == {d \in PlannedDays(c) : template[d] # << >>}

\* C1: every DayPlan of a training day whose candidate pool holds at least
\* exercises_per_day exercises contains exactly exercises_per_day exercises.
C1_ExactlyExercisesPerDay ==
    \A c \in Calls : \A d \in TrainingDaysPlanned(c) :
        Cardinality(day_log[c][d].pool) >= algorithm_params.exercises_per_day
        => Len(weekly_plan[c][d].exercises) = algorithm_params.exercises_per_day

\* no two records of the list share a pk
DistinctIds(exercises) ==
    \A i, j \in 1 .. Len(exercises) :
        exercises[i].pk = exercises[j].pk => i = j

\* C2: in every DayPlan, and in every list of picks a strategy is building
\* or has returned, no two exercises share an id.
C2_NoDuplicateIds ==
    \A c \in Calls :
        /\ \A d \in PlannedDays(c) : DistinctIds(weekly_plan[c][d].exercises)
        /\ DistinctIds(selected_exercises[c])
        /\ DistinctIds(current_solution[c])
        /\ DistinctIds(exercises_with_scores[c])

\* a finished week with one day from each strategy: greedy alone (the
\* fallback of a small pool), exhaustive search, and greedy followed by 2-opt
C2_Witness ==
    \E c \in Calls :
        /\ pc[c] = "done"
        /\ \E d \in PlannedDays(c) :
              /\ day_log[c][d].strategies = <<"exhaustive", "greedy">>
              /\ Len(weekly_plan[c][d].exercises) >= 2
        /\ \E d \in PlannedDays(c) :
              /\ day_log[c][d].strategies = <<"exhaustive">>
              /\ Len(weekly_plan[c][d].exercises) >= 2
        /\ \E d \in PlannedDays(c) :
              /\ day_log[c][d].strategies = <<"greedy", "two_opt">>
              /\ Len(weekly_plan[c][d].exercises) >= 2

\* the pks of a candidates list
PoolOf(cands) == {cands[k].pk : k \in 1 .. Len(cands)}

\* the pks of a list of exercise records, in order
IdsOf(exercises) == [k \in 1 .. Len(exercises) |-> exercises[k].pk]

\* every ordered selection of FIXED_K distinct exercises of a pool
OrderedSelections(pool) ==
    {t \in [1 .. FIXED_K -> pool] :
        \A i, j \in 1 .. FIXED_K : t[i] = t[j] => i = j}

\* _exhaustive_search has just returned the result of its own search
JustSearched(c) ==
    IF pc[c] = "finish_day"
    THEN day_log[c][Len(day_log[c])].strategies = <<"exhaustive">>
    ELSE FALSE

\* C3: for a pool of at least 5, exhaustive search returns an ordered
\* selection of 5 distinct pool exercises, scored position by position with
\* the weekly ids of the day, and no such selection has a strictly higher
\* total (the sum of the score fields, which is what the search compares).
C3_ExhaustiveIsMaximal ==
    \A c \in Calls :
        IF JustSearched(c)
        THEN LET returned == exercises_with_scores[c]
                 pool == PoolOf(candidates[c])
             IN  /\ Cardinality(pool) >= FIXED_K
                 /\ IdsOf(returned) \in OrderedSelections(pool)
                 /\ returned = _build_solution(IdsOf(returned), candidates[c],
                                               global_selected_ids[c])
                 /\ \A t \in OrderedSelections(pool) :
                        TotalScore(_build_solution(t, candidates[c],
                                                   global_selected_ids[c]))
                        <= TotalScore(returned)
        ELSE TRUE

\* a search over a pool of more than 5, on a day with weekly ids to
\* penalise, whose result is not the first ordering enumerated
C3_Witness ==
    \E c \in Calls :
        IF JustSearched(c)
        THEN /\ Len(candidates[c]) > FIXED_K
             /\ global_selected_ids[c] \cap PoolOf(candidates[c]) # {}
             /\ IdsOf(exercises_with_scores[c])
                   # [k \in 1 .. FIXED_K |-> candidates[c][k].pk]
        ELSE FALSE

\* C4: for the same pool and the same weekly ids, the total of what
\* _exhaustive_search returns is at least the total of what _greedy_search
\* returns.
C4_ExhaustiveAtLeastGreedy ==
    \A c \in Calls :
        IF JustSearched(c)
        THEN TotalScore(exercises_with_scores[c])
             >= TotalScore(_greedy_search(candidates[c], global_selected_ids[c],
                                          algorithm_params.exercises_per_day))
        ELSE TRUE

\* _two_opt_improvement is running, or has just returned its solution;
\* selected_exercises[c] is then still the greedy solution it was given
InTwoOpt(c) == pc[c] = "two_opt"

TwoOptReturned(c) ==
    IF pc[c] = "finish_day"
    THEN day_log[c][Len(day_log[c])].strategies = <<"greedy", "two_opt">>
    ELSE FALSE

\* the tracked score is the total of the tracked solution and is not below
\* the total of the greedy solution; so is the total of what is returned
TwoOptNotBelowGreedy ==
    \A c \in Calls :
        /\ IF InTwoOpt(c) \/ TwoOptReturned(c)
           THEN /\ current_score[c] = FloatTotal(current_solution[c])
                /\ current_score[c].n >= TotalScore(selected_exercises[c])
           ELSE TRUE
        /\ IF TwoOptReturned(c)
           THEN TotalScore(exercises_with_scores[c])
                >= TotalScore(selected_exercises[c])
           ELSE TRUE

\* no step of a running 2-opt lowers the tracked score
TwoOptStepKeepsScore ==
    \A c \in Calls : InTwoOpt(c) => current_score'[c].n >= current_score[c].n

\* C5: the total of the solution 2-opt returns is never lower than the total
\* of the greedy solution it started from, and the tracked current score
\* never decreases from one step of 2-opt to the next.
C5_TwoOptNeverRegresses ==
    []TwoOptNotBelowGreedy /\ [][TwoOptStepKeepsScore]_vars

\* 2-opt has returned a solution it improved by at least one accepted swap
C5_Witness ==
    \E c \in Calls :
        /\ TwoOptReturned(c)
        /\ TotalScore(exercises_with_scores[c]) > TotalScore(selected_exercises[c])
        /\ IdsOf(exercises_with_scores[c]) # IdsOf(selected_exercises[c])

\* the days of a call that HybridSelector has dispatched
DispatchedDays(c) ==
    IF selector_class = "HybridSelector"
    THEN {d \in 1 .. Len(day_log[c]) : template[d] # << >>}
    ELSE {}

\* s is a non-empty prefix of t
IsStartOf(s, t) ==
    /\ Len(s) >= 1
    /\ Len(s) <= Len(t)
    /\ \A k \in 1 .. Len(s) : s[k] = t[k]

\* the strategies of every dispatched day are the expected ones: all of
\* them once the day has a DayPlan, the first of them while it is planned
StrategiesAre(Expected(_, _)) ==
    \A c \in Calls : \A d \in DispatchedDays(c) :
        LET expected == Expected(Cardinality(day_log[c][d].pool),
                                 algorithm_params.exhaustive_threshold)
        IN  IF d \in PlannedDays(c)
            THEN day_log[c][d].strategies = expected
            ELSE IsStartOf(day_log[c][d].strategies, expected)

\* exhaustive search for a pool within the threshold, otherwise greedy
\* followed by 2-opt, and nothing else
RoutingAsStated(num_candidates, threshold) ==
    IF num_candidates <= threshold
    THEN <<"exhaustive">> ELSE <<"greedy", "two_opt">>

\* the same, with the fallback of _exhaustive_search: below 5 candidates it
\* runs no search and returns the result of greedy alone
RoutingWithFallback(num_candidates, threshold) ==
    IF num_candidates <= threshold
    THEN IF num_candidates >= FIXED_K
         THEN <<"exhaustive">> ELSE <<"exhaustive", "greedy">>
    ELSE <<"greedy", "two_opt">>

ResolvedDays(c) == {d \in 1 .. Len(day_log[c]) : template[d] # << >>}

\* the ids in the DayPlans of the days of call c before day d
EarlierPlanIds(c, d) ==
    UNION {Pks(weekly_plan[c][e].exercises) :
              e \in {n \in PlannedDays(c) : n < d}}

\* C7: an exercise selected on an earlier day of the week is a member of the
\* pool of every later day whose labels (or the full-corpus fallback) admit
\* it: the weekly ids exclude nothing.
C7_WeeklyIdsStayInPool ==
    \A c \in Calls : \A d \in ResolvedDays(c) :
        \A id \in EarlierPlanIds(c, d) :
            (/\ id \in ResolveExerciseIds(template[d])
             /\ id \in ExercisePks
             /\ id \notin EXCLUDED_EXERCISES)
            => id \in day_log[c][d].pool

\* an exercise of an earlier DayPlan has been selected again on a later day
C7_Witness ==
    \E c \in Calls : \E d \in PlannedDays(c) :
        /\ EarlierPlanIds(c, d) # {}
        /\ Pks(weekly_plan[c][d].exercises) \cap EarlierPlanIds(c, d) # {}
        /\ Pks(weekly_plan[c][d].exercises) \ EarlierPlanIds(c, d) # {}

\* a greedy loop of call c is at a position it has yet to fill
PlanningPosition(c) ==
    /\ pc[c] \in {"greedy_selector", "greedy_search", "greedy_fallback"}
    /\ position[c] < algorithm_params.exercises_per_day

\* what the weekly ids of the call change in the dynamic score of a candidate
\* at the position being planned
WeeklyRepeatShare(c, id) ==
    _calculate_dynamic_score(id, position[c], selected_exercises[c],
                             selected_families[c], global_selected_ids[c])
    - _calculate_dynamic_score(id, position[c], selected_exercises[c],
                               selected_families[c], {})

\* C8: the weekly set of a call is exactly the union of the ids of its
\* DayPlans so far, so that after day d it is the union up to d; and while a
\* day is planned, a candidate receives the weekly_repeat penalty if and only
\* if its id is in the DayPlan of an earlier day of the same call (a pick of
\* the day itself does not count).
C8_WeeklyRepeatIffEarlierDay ==
    \A c \in Calls :
        /\ global_selected_ids[c] = EarlierPlanIds(c, Len(weekly_plan[c]) + 1)
        /\ \A d \in ResolvedDays(c) :
              day_log[c][d].weekly_ids = EarlierPlanIds(c, d)
        /\ IF PlanningPosition(c)
           THEN \A id \in PoolOf(candidates[c]) :
                   WeeklyRepeatShare(c, id) =
                       IF id \in EarlierPlanIds(c, Len(weekly_plan[c]) + 1)
                       THEN diversity_rules.penalties.weekly_repeat ELSE 0
           ELSE TRUE

\* a later day is being planned: one candidate was picked on an earlier day
\* and is penalised, another was picked today only and is not
C8_Witness ==
    \E c \in Calls :
        /\ PlanningPosition(c)
        /\ \E id \in PoolOf(candidates[c]) :
              /\ id \in EarlierPlanIds(c, Len(weekly_plan[c]) + 1)
              /\ WeeklyRepeatShare(c, id) = diversity_rules.penalties.weekly_repeat
        /\ \E id \in selected_ids[c] :
              /\ id \notin EarlierPlanIds(c, Len(weekly_plan[c]) + 1)
              /\ WeeklyRepeatShare(c, id) = 0

\* the DayPlan of every day with an empty muscle-group list has no exercises
\* and total score 0
RestDaysAreEmpty ==
    \A c \in Calls : \A d \in PlannedDays(c) :
        template[d] = << >> =>
            /\ weekly_plan[c][d].exercises = << >>
            /\ weekly_plan[c][d].total_score = 0

\* the step that emits the DayPlan of such a day leaves the weekly set alone
RestDayKeepsWeeklyIds ==
    \A c \in Calls :
        (/\ Len(weekly_plan'[c]) = Len(weekly_plan[c]) + 1
         /\ template[Len(weekly_plan'[c])] = << >>)
        => global_selected_ids'[c] = global_selected_ids[c]

\* C9: every day whose muscle-group list is empty yields a DayPlan with zero
\* exercises and total score zero, and leaves the weekly id set unchanged.
C9_RestDay ==
    []RestDaysAreEmpty /\ [][RestDayKeepsWeeklyIds]_vars

\* a rest day has been planned after a training day that put ids in the
\* weekly set
C9_Witness ==
    \E c \in Calls : \E d \in PlannedDays(c) :
        /\ template[d] = << >>
        /\ d = Len(weekly_plan[c])
        /\ day_log[c][d].weekly_ids # {}
        /\ global_selected_ids[c] = day_log[c][d].weekly_ids

\* C10: two runs of generate_weekly_plan on the same selector, with the same
\* corpus, tables, configuration, coefficients, exclusions and iteration
\* order, end the same way and produce identical WeeklyPlans.
C10_Deterministic ==
    \A c1, c2 \in Calls :
        (Finished(c1) /\ Finished(c2)) =>
            /\ pc[c1] = pc[c2]
            /\ weekly_plan[c1] = weekly_plan[c2]

\* two runs have returned a week of more than one training day
C10_Witness ==
    \E c1, c2 \in Calls :
        /\ c1 # c2
        /\ pc[c1] = "done"
        /\ pc[c2] = "done"
        /\ Cardinality(TrainingDaysPlanned(c1)) >= 2
        /\ Cardinality(TrainingDaysPlanned(c2)) >= 2
        /\ \E d \in PlannedDays(c2) : day_log[c2][d].weekly_ids # {}

\* the pool of the day call c resolved last
LastPool(c) == day_log[c][Len(day_log[c])].pool

\* C11: when a day's pool is smaller than exercises_per_day, HybridSelector's
\* day selection raises no error, whatever the threshold, and the DayPlan it
\* returns has at most pool-size exercises, all of them from the pool.
C11_SmallPoolCompletes ==
    \A c \in Calls :
        /\ IF pc[c] = "IndexError"
           THEN Cardinality(LastPool(c)) >= algorithm_params.exercises_per_day
           ELSE TRUE
        /\ IF selector_class = "HybridSelector"
           THEN \A d \in TrainingDaysPlanned(c) :
                   Cardinality(day_log[c][d].pool)
                       < algorithm_params.exercises_per_day
                   => /\ Len(weekly_plan[c][d].exercises)
                            <= Cardinality(day_log[c][d].pool)
                      /\ Pks(weekly_plan[c][d].exercises) \subseteq day_log[c][d].pool
           ELSE TRUE

\* C12: no exercise whose id is in the exclusion set is in a candidate pool
\* or in a DayPlan (or among the picks a strategy holds), on any day, the
\* days whose pool is the full-corpus fallback included.
C12_ExcludedNeverAppear ==
    \A c \in Calls :
        /\ \A d \in 1 .. Len(day_log[c]) :
              day_log[c][d].pool \cap EXCLUDED_EXERCISES = {}
        /\ \A d \in PlannedDays(c) :
              Pks(weekly_plan[c][d].exercises) \cap EXCLUDED_EXERCISES = {}
        /\ PoolOf(candidates[c]) \cap EXCLUDED_EXERCISES = {}
        /\ Pks(selected_exercises[c]) \cap EXCLUDED_EXERCISES = {}
        /\ Pks(current_solution[c]) \cap EXCLUDED_EXERCISES = {}
        /\ Pks(exercises_with_scores[c]) \cap EXCLUDED_EXERCISES = {}

\* a day planned from the full-corpus fallback (its labels name no category),
\* which admits an excluded exercise, and a day planned from a category that
\* names one
C12_Witness ==
    \E c \in Calls : \E d1, d2 \in TrainingDaysPlanned(c) :
        /\ EXCLUDED_EXERCISES # {}
        /\ ResolveExerciseIds(template[d1]) = ExercisePks
        /\ template[d1] # <<"all">>
        /\ Len(weekly_plan[c][d1].exercises) >= 2
        /\ ResolveExerciseIds(template[d2]) # ExercisePks
        /\ ResolveExerciseIds(template[d2]) \cap EXCLUDED_EXERCISES # {}
        /\ Len(weekly_plan[c][d2].exercises) >= 2

\* C13: when the training-days count has no entry in the training
\* templates, generate_weekly_plan raises the lookup error before any day is
\* planned and produces no plan, not even a partial one; and the lookup error
\* is raised in no other case.
C13_MissingTemplateFails ==
    \A c \in Calls :
        /\ IF ~(TRAINING_DAYS \in DOMAIN training_templates)
           THEN /\ pc[c] \in {"idle", "KeyError"}
                /\ weekly_plan[c] = << >>
                /\ day_log[c] = << >>
                /\ global_selected_ids[c] = {}
           ELSE TRUE
        /\ pc[c] = "KeyError" => ~(TRAINING_DAYS \in DOMAIN training_templates)

\* every call on a selector whose day count has no template has failed
C13_Witness ==
    \A c \in Calls : pc[c] = "KeyError" /\ weekly_plan[c] = << >>

\* C14: the solution 2-opt holds, and the one it returns, is a reordering of
\* the greedy solution it was given: as many exercises, the same set of ids.
C14_TwoOptReorders ==
    \A c \in Calls :
        /\ IF InTwoOpt(c) \/ TwoOptReturned(c)
           THEN /\ Len(current_solution[c]) = Len(selected_exercises[c])
                /\ Pks(current_solution[c]) = Pks(selected_exercises[c])
           ELSE TRUE
        /\ IF TwoOptReturned(c)
           THEN /\ Len(exercises_with_scores[c]) = Len(selected_exercises[c])
                /\ Pks(exercises_with_scores[c]) = Pks(selected_exercises[c])
           ELSE TRUE

\* 2-opt has returned a solution in which at least two positions hold another
\* exercise than in the greedy solution
C14_Witness ==
    \E c \in Calls :
        /\ TwoOptReturned(c)
        /\ Len(exercises_with_scores[c]) >= FIXED_K
        /\ \E i, j \in 1 .. Len(exercises_with_scores[c]) :
              /\ i < j
              /\ exercises_with_scores[c][i].pk = selected_exercises[c][j].pk
              /\ exercises_with_scores[c][j].pk = selected_exercises[c][i].pk

\* the number of passes made never exceeds max_2opt_iterations
PassesWithinLimit ==
    \A c \in Calls : iterations[c] <= algorithm_params.max_2opt_iterations

\* a step of 2-opt that changes the solution (an accepted swap) is one pass,
\* so that there are no more accepted swaps than passes; and once a pass has
\* accepted no swap the next step returns
TwoOptStepCounts ==
    \A c \in Calls :
        InTwoOpt(c) =>
            /\ current_solution'[c] # current_solution[c]
                  => iterations'[c] = iterations[c] + 1
            /\ ~improved[c] => pc'[c] = "finish_day"

\* a running 2-opt stops: it returns or it raises
TwoOptStops == \A c \in Calls : InTwoOpt(c) ~> ~InTwoOpt(c)

\* C15: 2-opt always terminates: it stops as soon as a full pass over the
\* position pairs has accepted no swap, and in any case after at most
\* max_2opt_iterations passes, so that it accepts at most that many swaps.
C15_TwoOptTerminates ==
    []PassesWithinLimit /\ [][TwoOptStepCounts]_vars /\ TwoOptStops

\* 2-opt has returned after a pass that accepted nothing, with passes to spare
\* and after at least one accepted swap
C15_Witness ==
    \E c \in Calls :
        /\ TwoOptReturned(c)
        /\ ~improved[c]
        /\ iterations[c] >= 2
        /\ iterations[c] < algorithm_params.max_2opt_iterations

(***************************************************************************)
(* Ties.                                                                   *)
(***************************************************************************)
\* the unrounded score the greedy scan gives the k-th candidate of a call
\* at the position the call is filling
ScanScore(c, k) ==
    candidates[c][k].static_score
    + _calculate_dynamic_score(candidates[c][k].pk, position[c],
          selected_exercises[c], selected_families[c], global_selected_ids[c])

\* a greedy position that adds an exercise adds the first candidate, in
\* candidate order, among the unselected ones with its score
GreedyKeepsFirstTied ==
    \A c \in Calls :
        IF Len(selected_exercises'[c]) = Len(selected_exercises[c]) + 1
        THEN LET chosen == selected_exercises'[c][Len(selected_exercises'[c])].pk
                 at == CHOOSE k \in 1 .. Len(candidates[c]) :
                           candidates[c][k].pk = chosen
             IN  \A k \in 1 .. at - 1 :
                     candidates[c][k].pk \notin selected_ids[c]
                     => ScanScore(c, k) # ScanScore(c, at)
        ELSE TRUE

\* the k-th ordering exhaustive search enumerates for a call, built
EnumeratedSolution(c, k) ==
    LET ordering == Orderings5[Len(candidates[c])][k]
    IN  _build_solution([i \in 1 .. FIXED_K |-> candidates[c][ordering[i]].pk],
                        candidates[c], global_selected_ids[c])

\* what exhaustive search returns is the first ordering, in enumeration
\* order, among those with its total
ExhaustiveKeepsFirstTied ==
    \A c \in Calls :
        IF JustSearched(c)
        THEN LET returned == exercises_with_scores[c]
                 tied == {k \in 1 .. Len(Orderings5[Len(candidates[c])]) :
                             TotalScore(EnumeratedSolution(c, k))
                             = TotalScore(returned)}
                 first == CHOOSE k \in tied : \A j \in tied : k <= j
             IN  returned = EnumeratedSolution(c, first)
        ELSE TRUE

\* a 2-opt pass replaces the current solution only by one with a higher total
TwoOptKeepsTied ==
    \A c \in Calls :
        InTwoOpt(c) /\ current_solution'[c] # current_solution[c]
        => TotalScore(current_solution'[c]) > TotalScore(current_solution[c])

\* C17: in every strategy, among the candidates (greedy) or orderings
\* (exhaustive search, 2-opt) that share the best total score, the one that
\* comes first in the iteration or enumeration order is kept; a later one
\* with an equal score never replaces it.
C17_FirstOfTiedIsKept ==
    /\ [][GreedyKeepsFirstTied]_vars
    /\ []ExhaustiveKeepsFirstTied
    /\ [][TwoOptKeepsTied]_vars

(***************************************************************************)
(* A synthetic corpus: five or six exercises that are in no classification *)
(* table, no family and no category, so that no position score, balance    *)
(* penalty or repetition penalty applies to them on the first day of a     *)
(* full-body week.  Their muscle lists are drawn from a menu.              *)
(***************************************************************************)
\* the pks of the synthetic corpus, in the order of strength.json
SyntheticPks == <<100, 101, 102, 103, 104, 105>>

\* the muscle lists a synthetic exercise may have; their static scores are
\* 15.0, 18.0, 14.5, 13.0, 12.775 and 12.78
SyntheticMuscles ==
    <<[primaryMuscles |-> <<"pectorals">>, secondaryMuscles |-> << >>],
      [primaryMuscles |-> <<"pectorals">>, secondaryMuscles |-> <<"neck">>],
      [primaryMuscles |-> <<"abs">>,       secondaryMuscles |-> <<"pectorals">>],
      [primaryMuscles |-> <<"abs">>,       secondaryMuscles |-> <<"neck">>],
      [primaryMuscles |-> <<"pectorals", "lats", "biceps", "abs", "obliques">>,
       secondaryMuscles |-> <<"pectorals", "abs", "obliques", "neck">>],
      [primaryMuscles |-> <<"pectorals", "lats">>,
       secondaryMuscles |-> <<"lats", "biceps", "triceps", "abs", "obliques">>]>>

\* the synthetic corpora: any five of the menu's exercises in any order, or
\* all six in the menu's order with at most one pair exchanged
SyntheticCorpora ==
    LET n == Len(SyntheticMuscles)
        five == {f \in [1 .. FIXED_K -> 1 .. n] :
                    \A i, j \in 1 .. FIXED_K : f[i] = f[j] => i = j}
        six == {[k \in 1 .. n |-> IF k = i THEN j ELSE IF k = j THEN i ELSE k] :
                    i \in 1 .. n, j \in 1 .. n}
    IN  {[k \in DOMAIN f |-> SyntheticMuscles[f[k]]] : f \in five \cup six}

\* BaseSelector._calculate_static_score of an exercise outside Common
SyntheticStaticScore(exercise) ==
    MuscleShare(exercise.primaryMuscles, scoring_weights.primary_muscle.base_score)
    + MuscleShare(exercise.secondaryMuscles,
                  scoring_weights.secondary_muscle.base_score)

\* the candidates dict _get_candidate_exercises returns for a synthetic corpus
SyntheticCandidates(corpus) ==
    [k \in 1 .. Len(corpus) |->
        [pk |-> SyntheticPks[k], static_score |-> SyntheticStaticScore(corpus[k])]]

\* the thresholds of the scenario
SyntheticThresholdValues == {5, 6}

\* a HybridSelector over a synthetic corpus of different exercises, in its
\* first call, on the first day of a one-day (full body) week, at line 44
\* of _select_exercises_for_day: the pool has been resolved
SyntheticInit ==
    /\ selector_class = "HybridSelector"
    /\ TRAINING_DAYS = 1
    /\ EXCLUDED_EXERCISES = {}
    /\ MUSCLE_PREFERENCES = ClassMusclePreferences
    /\ algorithm_params \in
          [exercises_per_day : {FIXED_K},
           exhaustive_threshold : SyntheticThresholdValues,
           max_2opt_iterations : {3}]
    /\ pc = [c \in Calls |-> IF c = 1 THEN "day_loop" ELSE "idle"]
    /\ day_index = [c \in Calls |-> 0]
    /\ global_selected_ids = [c \in Calls |-> NewGlobalSelectedIds]
    /\ weekly_plan = [c \in Calls |-> << >>]
    /\ \E corpus \in SyntheticCorpora :
          candidates = [c \in Calls |->
             IF c = 1 THEN SyntheticCandidates(corpus) ELSE << >>]
    /\ position = [c \in Calls |-> 0]
    /\ selected_exercises = [c \in Calls |-> << >>]
    /\ selected_ids = [c \in Calls |-> {}]
    /\ selected_families = [c \in Calls |-> {}]
    /\ current_solution = [c \in Calls |-> << >>]
    /\ current_score = [c \in Calls |-> FloatZero]
    /\ improved = [c \in Calls |-> FALSE]
    /\ iterations = [c \in Calls |-> 0]
    /\ exercises_with_scores = [c \in Calls |-> << >>]
    /\ day_log = [c \in Calls |-> << >>]

\* lines 44-52 of _select_exercises_for_day over the pool already resolved
SyntheticDispatchExhaustive(c) ==
    /\ pc[c] = "day_loop"
    /\ day_index[c] < Len(template)
    /\ ~IsRestDay(muscle_groups(c))
    /\ candidates[c] # << >>
    /\ RoutesToExhaustive(Len(candidates[c]), algorithm_params.exhaustive_threshold)
    /\ day_log' = [day_log EXCEPT ![c] = NewLogEntry(c, candidates[c], "exhaustive")]
    /\ pc' = [pc EXCEPT ![c] = "exhaustive"]
    /\ UNCHANGED <<selector_vars, week_vars, candidates, greedy_vars, two_opt_vars,
                   exercises_with_scores>>

\* lines 44-55 of _select_exercises_for_day over the pool already resolved
SyntheticDispatchGreedy(c) ==
    /\ pc[c] = "day_loop"
    /\ day_index[c] < Len(template)
    /\ ~IsRestDay(muscle_groups(c))
    /\ candidates[c] # << >>
    /\ ~RoutesToExhaustive(Len(candidates[c]), algorithm_params.exhaustive_threshold)
    /\ day_log' = [day_log EXCEPT ![c] = NewLogEntry(c, candidates[c], "greedy")]
    /\ StartGreedyLoop(c)
    /\ pc' = [pc EXCEPT ![c] = "greedy_search"]
    /\ UNCHANGED <<selector_vars, week_vars, candidates, two_opt_vars,
                   exercises_with_scores>>

\* the steps of the call over the synthetic corpus
SyntheticNext ==
    \E c \in Calls :
        \/ SyntheticDispatchExhaustive(c)
        \/ SyntheticDispatchGreedy(c)
        \/ ExhaustiveSearch(c)
        \/ HybridGreedyPosition(c)
        \/ TwoOptStart(c)
        \/ TwoOptPass(c)
        \/ TwoOptReturn(c)
        \/ FinishDay(c)
        \/ ReturnPlan(c)

SyntheticSpec == SyntheticInit /\ [][SyntheticNext]_vars

\* no bonus or penalty applies to the pool of a call: every ordering of
\* five of its exercises is built with dynamic scores of 0
NoDynamicScoreApplies(c) ==
    \A t \in OrderedSelections(PoolOf(candidates[c])) :
        LET solution == _build_solution(t, candidates[c], global_selected_ids[c])
        IN  \A k \in 1 .. Len(solution) : solution[k].dynamic_score = 0

\* the static scores of the pool of a call are pairwise distinct
DistinctStaticScores(c) ==
    \A i, j \in 1 .. Len(candidates[c]) :
        candidates[c][i].static_score = candidates[c][j].static_score => i = j

\* C16: with a pool of exactly 5 exercises of pairwise distinct static
\* scores to which no dynamic bonus or penalty applies, exercises_per_day = 5
\* and a threshold of at least 5, HybridSelector runs exhaustive search and
\* returns the 5 exercises in descending order of static score.
C16_DescendingStaticOrder ==
    \A c \in Calls :
        IF /\ selector_class = "HybridSelector"
           /\ pc[c] = "finish_day"
           /\ Len(candidates[c]) = FIXED_K
           /\ algorithm_params.exercises_per_day = FIXED_K
           /\ algorithm_params.exhaustive_threshold >= FIXED_K
        THEN DistinctStaticScores(c) /\ NoDynamicScoreApplies(c)
             => LET returned == exercises_with_scores[c]
                IN  /\ day_log[c][Len(day_log[c])].strategies = <<"exhaustive">>
                    /\ PoolOf(returned) = PoolOf(candidates[c])
                    /\ \A k \in 1 .. Len(returned) - 1 :
                           returned[k].static_score > returned[k + 1].static_score
        ELSE TRUE

(***************************************************************************)
(* Rounding.                                                               *)
(***************************************************************************)
\* the total of an ordering before any rounding: static_score +
\* dynamic_score of every position, as _build_solution computes them before
\* it calls round
FullPrecisionTotal(exercise_ids, cands, weekly_ids) ==
    LET solution == _build_solution(exercise_ids, cands, weekly_ids)
    IN  SumSeq([k \in 1 .. Len(exercise_ids) |->
                   StaticOf(cands, exercise_ids[k])
                   + _calculate_dynamic_score(exercise_ids[k], k - 1,
                         SubSeq(solution, 1, k - 1),
                         {_get_exercise_family(exercise_ids[j]) : j \in 1 .. k - 1}
                            \ {""},
                         weekly_ids)])

\* the search ranks the first ordering above the second exactly as their
\* full-precision totals do, whenever those differ
RanksByFullPrecision(first, second, cands, weekly_ids) ==
    LET full_first == FullPrecisionTotal(first, cands, weekly_ids)
        full_second == FullPrecisionTotal(second, cands, weekly_ids)
        compared_first == FloatTotal(_build_solution(first, cands, weekly_ids))
        compared_second == FloatTotal(_build_solution(second, cands, weekly_ids))
    IN  /\ full_first > full_second
           => FloatGreater(compared_first, compared_second)
        /\ full_first < full_second
           => FloatGreater(compared_second, compared_first)

\* exhaustive search: every ordering against the one returned
ExhaustiveRanksByFullPrecision ==
    \A c \in Calls :
        IF JustSearched(c)
        THEN \A t \in OrderedSelections(PoolOf(candidates[c])) :
                 RanksByFullPrecision(t, IdsOf(exercises_with_scores[c]),
                                      candidates[c], global_selected_ids[c])
        ELSE TRUE

\* 2-opt: every swap of a pass against the current solution
TwoOptRanksByFullPrecision ==
    \A c \in Calls :
        IF InTwoOpt(c) /\ Len(current_solution[c]) = FIXED_K
        THEN \A k \in 1 .. Len(SwapPairs) :
                 RanksByFullPrecision(
                     Swapped(IdsOf(current_solution[c]), SwapPairs[k][1],
                             SwapPairs[k][2]),
                     IdsOf(current_solution[c]), candidates[c],
                     global_selected_ids[c])
        ELSE TRUE

\* C18: exhaustive search and 2-opt compare orderings by their
\* full-precision totals (the sums of the unrounded static + dynamic
\* scores): two orderings whose full-precision totals differ are never
\* treated as equal or ranked in the opposite order.
C18_ComparesFullPrecision ==
    ExhaustiveRanksByFullPrecision /\ TwoOptRanksByFullPrecision


(***************************************************************************)
(* generate_weekly_plan as a function: the plan one call computes when     *)
(* nothing else runs, built from the same steps as the actions.            *)
(***************************************************************************)
RECURSIVE GreedySelectorFrom(_, _, _, _, _)
\* GreedySelector._select_exercises_for_day: the positions from the given
\* one on
GreedySelectorFrom(next_position, picks, cands, weekly_ids, exercises_per_day) ==
    IF next_position >= exercises_per_day THEN picks.selected_exercises
    ELSE GreedySelectorFrom(next_position + 1,
             GreedySelectorStep(cands, next_position, picks, weekly_ids),
             cands, weekly_ids, exercises_per_day)

RECURSIVE TwoOptFrom(_, _, _, _, _, _, _)
\* _two_opt_improvement: the while loop from the given locals on.  The
\* outcome is [raised, exercises].
TwoOptFrom(solution, score, is_improved, passes, max_iterations, cands, weekly_ids) ==
    IF is_improved /\ passes < max_iterations
    THEN LET pass == PairScan(1, solution, score, cands, weekly_ids)
         IN  IF pass.kind = "IndexError"
             THEN [raised |-> TRUE, exercises |-> << >>]
             ELSE TwoOptFrom(pass.solution, pass.score, pass.kind = "accepted",
                             passes + 1, max_iterations, cands, weekly_ids)
    ELSE [raised |-> FALSE, exercises |-> solution]

\* the selector a call runs on: its class and its configuration
Selector ==
    [selector_class |-> selector_class, TRAINING_DAYS |-> TRAINING_DAYS,
     EXCLUDED_EXERCISES |-> EXCLUDED_EXERCISES, algorithm_params |-> algorithm_params]

\* _select_exercises_for_day of a selector
SelectAlone(self, groups, weekly_ids) ==
    LET cands == _get_candidate_exercises(groups, weekly_ids, self.EXCLUDED_EXERCISES)
        exercises_per_day == self.algorithm_params.exercises_per_day
        greedy_result == _greedy_search(cands, weekly_ids, exercises_per_day)
    IN  IF self.selector_class = "GreedySelector"
        THEN [raised |-> FALSE,
              exercises |-> GreedySelectorFrom(0, NoPicks, cands, weekly_ids,
                                               exercises_per_day)]
        ELSE IF RoutesToExhaustive(Len(cands),
                                   self.algorithm_params.exhaustive_threshold)
        THEN [raised |-> FALSE,
              exercises |-> IF Len(cands) < FIXED_K THEN greedy_result
                            ELSE ExhaustiveBest(cands, weekly_ids)]
        ELSE TwoOptFrom(greedy_result, FloatTotal(greedy_result), TRUE, 0,
                        self.algorithm_params.max_2opt_iterations, cands,
                        weekly_ids)

RECURSIVE PlanFrom(_, _, _, _)
\* generate_weekly_plan: the days from the given index on.  The outcome is
\* [pc, weekly_plan]: how the call ends and the plan built so far.
PlanFrom(self, day, weekly_ids, plan) ==
    IF day = Len(training_templates[self.TRAINING_DAYS])
    THEN [pc |-> "done", weekly_plan |-> plan]
    ELSE LET groups == training_templates[self.TRAINING_DAYS][day + 1]
         IN  IF IsRestDay(groups)
             THEN PlanFrom(self, day + 1, weekly_ids,
                      Append(plan, [type |-> <<"Rest Day">>, exercises |-> << >>,
                                    total_score |-> 0]))
             ELSE LET selected == SelectAlone(self, groups, weekly_ids)
                  IN  IF selected.raised
                      THEN [pc |-> "IndexError", weekly_plan |-> plan]
                      ELSE PlanFrom(self, day + 1,
                               FoldDayIds(weekly_ids, selected.exercises),
                               Append(plan,
                                   [type |-> _generate_day_type(groups),
                                    muscle_groups |-> groups,
                                    exercises |-> selected.exercises,
                                    total_score |->
                                       Round2(FloatTotal(selected.exercises).n)]))

\* generate_weekly_plan run alone on the configured selector
PlanAlone ==
    IF HasTemplate(TRAINING_DAYS) THEN PlanFrom(Selector, 0, {}, << >>)
    ELSE [pc |-> "KeyError", weekly_plan |-> << >>]

(***************************************************************************)
(* Two calls at the same time: the steps of calls 1 and 2 interleave.      *)
(***************************************************************************)
\* the calls that run at the same time
Interleaved == {1, 2}

\* the day counts of the interleaved runs
InterleavedTrainingDays == {2, 3}

\* the selectors of Init that plan 5 exercises a day on 2 or 3 days, with no
\* exclusions and up to 3 passes of 2-opt
InterleavedInit ==
    /\ Init
    /\ TRAINING_DAYS \in InterleavedTrainingDays
    /\ algorithm_params.exercises_per_day = FIXED_K
    /\ algorithm_params.max_2opt_iterations = 3
    /\ EXCLUDED_EXERCISES = {}

\* lines 95-97 in a call that does not wait for the other one
InterleavedCall(c) ==
    /\ c \in Interleaved
    /\ pc[c] = "idle"
    /\ HasTemplate(TRAINING_DAYS)
    /\ pc' = [pc EXCEPT ![c] = "day_loop"]
    /\ day_index' = [day_index EXCEPT ![c] = 0]
    /\ global_selected_ids' = [global_selected_ids EXCEPT ![c] = NewGlobalSelectedIds]
    /\ weekly_plan' = [weekly_plan EXCEPT ![c] = << >>]
    /\ UNCHANGED <<selector_vars, candidates, greedy_vars, two_opt_vars,
                   exercises_with_scores, day_log>>

\* a step of either call
InterleavedNext ==
    \E c \in Calls :
        \/ InterleavedCall(c)
        \/ RestDay(c)
        \/ GreedySelectorStart(c)
        \/ GreedySelectorPosition(c)
        \/ GreedySelectorReturn(c)
        \/ HybridDispatchExhaustive(c)
        \/ HybridDispatchGreedy(c)
        \/ ExhaustiveSearch(c)
        \/ HybridGreedyPosition(c)
        \/ TwoOptStart(c)
        \/ TwoOptPass(c)
        \/ TwoOptIndexError(c)
        \/ TwoOptReturn(c)
        \/ FinishDay(c)
        \/ ReturnPlan(c)

InterleavedSpec == InterleavedInit /\ [][InterleavedNext]_vars

\* the plan of a call so far is the beginning of the plan of a call alone
IsPlanPrefix(plan, whole) ==
    /\ Len(plan) <= Len(whole)
    /\ plan = SubSeq(whole, 1, Len(plan))

\* C19: two generate_weekly_plan computations whose steps interleave on the
\* same selector do not interfere: at every point each has built the
\* beginning of the WeeklyPlan it builds when it runs alone, and each returns
\* exactly that plan.
C19_InterleavedCallsPlanAlone ==
    LET alone == PlanAlone
    IN  \A c \in Calls :
            /\ IsPlanPrefix(weekly_plan[c], alone.weekly_plan)
            /\ Finished(c) => /\ pc[c] = alone.pc
                              /\ weekly_plan[c] = alone.weekly_plan

\* both calls are in the middle of their weeks at once, on different days,
\* each with a training day already planned
C19_Witness ==
    /\ ~Finished(1) /\ pc[1] # "idle"
    /\ ~Finished(2) /\ pc[2] # "idle"
    /\ day_index[1] > day_index[2]
    /\ \E d \in 1 .. Len(weekly_plan[2]) : weekly_plan[2][d].exercises # << >>
    /\ global_selected_ids[1] # global_selected_ids[2]

(***************************************************************************)
(* Preference coefficients chosen by the caller.                           *)
(***************************************************************************)
\* TIER_COEFFICIENTS of app.py, tier -> tenths
TIER_COEFFICIENTS == <<3, 6, 9, 12, 15>>

\* the tables generate_plan can assign to selector.MUSCLE_PREFERENCES from
\* the muscle_tiers of a request: only the categories the request names have
\* a coefficient.  With no muscle_tiers the class attribute stays.  The
\* tables are ones under which every score of the corpus is a decimal that
\* the doubles of the code round as Round2 does.
PreferenceTables ==
    {ClassMusclePreferences}
    \cup {[chest |-> TIER_COEFFICIENTS[a], arm |-> TIER_COEFFICIENTS[b]] :
             a \in {4, 5}, b \in {2, 3}}
    \cup {[back |-> TIER_COEFFICIENTS[4], arm |-> TIER_COEFFICIENTS[b]] :
             b \in {1, 5}}

PreferenceTrainingDays == {2, 3}

\* the selector after construction and the assignments of generate_plan
PreferenceInit ==
    /\ selector_class \in {"GreedySelector", "HybridSelector"}
    /\ TRAINING_DAYS \in PreferenceTrainingDays
    /\ EXCLUDED_EXERCISES = {}
    /\ MUSCLE_PREFERENCES \in PreferenceTables
    /\ algorithm_params \in
          [exercises_per_day : {FIXED_K},
           exhaustive_threshold : ThresholdValues,
           max_2opt_iterations : {3}]
    \* GreedySelector does not read the threshold
    /\ selector_class = "GreedySelector" =>
          algorithm_params.exhaustive_threshold = 6
    /\ NoCallMade

PreferenceNext ==
    \E c \in Calls :
        \/ Call(c)
        \/ RestDay(c)
        \/ GreedySelectorStart(c)
        \/ GreedySelectorPosition(c)
        \/ GreedySelectorReturn(c)
        \/ HybridDispatchExhaustive(c)
        \/ HybridDispatchGreedy(c)
        \/ ExhaustiveSearch(c)
        \/ HybridGreedyPosition(c)
        \/ TwoOptStart(c)
        \/ TwoOptPass(c)
        \/ TwoOptIndexError(c)
        \/ TwoOptReturn(c)
        \/ FinishDay(c)
        \/ ReturnPlan(c)

PreferenceSpec == PreferenceInit /\ [][PreferenceNext]_vars

\* the table with the coefficient of one category multiplied by a factor
Scaled(preferences, category, factor) ==
    [preferences EXCEPT ![category] = factor * @]

ScalingFactors == {0, 2, 3}

\* the muscles that resolve to the category
MusclesOf(category) ==
    IF category \in DOMAIN preference_mapping
    THEN preference_mapping[category] ELSE {}

\* the muscles an exercise names, in either list
MusclesIn(pk) ==
    {primaryMuscles(pk)[k] : k \in 1 .. Len(primaryMuscles(pk))}
    \cup {secondaryMuscles(pk)[k] : k \in 1 .. Len(secondaryMuscles(pk))}

\* the coefficient a muscle is to count with, in tenths: that of its
\* category, 1.0 where it has no category or the category no coefficient
ExpectedCoefficient(preferences, muscle) ==
    IF \E g \in DOMAIN preferences : muscle \in MusclesOf(g)
    THEN preferences[CHOOSE g \in DOMAIN preferences : muscle \in MusclesOf(g)]
    ELSE 10

\* what the muscles of one list that are in the set are to contribute:
\* base_score / number of muscles in the list * coefficient, each
ExpectedShare(preferences, muscles, base_score, wanted) ==
    SumSeq([k \in 1 .. Len(muscles) |->
        IF muscles[k] \in wanted
        THEN ((base_score \div Len(muscles))
                 * ExpectedCoefficient(preferences, muscles[k])) \div 10
        ELSE 0])

\* what the muscles of the set are to contribute to the static score of pk
ExpectedContribution(preferences, pk, wanted) ==
    ExpectedShare(preferences, primaryMuscles(pk),
                  scoring_weights.primary_muscle.base_score, wanted)
    + ExpectedShare(preferences, secondaryMuscles(pk),
                    scoring_weights.secondary_muscle.base_score, wanted)

CommonBonus(pk) ==
    IF pk \in classifications.common.Common
    THEN scoring_weights.common_exercise_bonus.score ELSE 0

\* C20 as the specification states it: multiplying the coefficient a muscle
\* of a candidate resolves to by c multiplies that muscle's contribution to
\* the candidate's static score by c and leaves every other contribution
\* and the common bonus unchanged.
C20_OneMuscleScales ==
    \A c \in Calls : \A k \in 1 .. Len(candidates[c]) :
        LET pk == candidates[c][k].pk
        IN  \A muscle \in MusclesIn(pk) : \A g \in DOMAIN MUSCLE_PREFERENCES :
                muscle \in MusclesOf(g) =>
                    \A factor \in ScalingFactors :
                        StaticScoreOf(Scaled(MUSCLE_PREFERENCES, g, factor), pk)
                          = candidates[c][k].static_score
                            + (factor - 1) * ExpectedContribution(
                                  MUSCLE_PREFERENCES, pk, {muscle})

\* C20: the static score of every candidate is the common bonus plus, for
\* each muscle of its two lists, base_score / number of muscles in the list
\* times the coefficient of the muscle's category, 1.0 for a muscle with no
\* category or a category with no coefficient; and multiplying the
\* coefficient of one category by c multiplies by c what the muscles that
\* resolve to this category contribute, and changes nothing else.
C20_LinearInCoefficient ==
    \A c \in Calls : \A k \in 1 .. Len(candidates[c]) :
        LET pk == candidates[c][k].pk
            static_score == candidates[c][k].static_score
        IN  /\ static_score
                 = ExpectedContribution(MUSCLE_PREFERENCES, pk, MusclesIn(pk))
                   + CommonBonus(pk)
            /\ \A g \in DOMAIN MUSCLE_PREFERENCES : \A factor \in ScalingFactors :
                  StaticScoreOf(Scaled(MUSCLE_PREFERENCES, g, factor), pk)
                    = static_score
                      + (factor - 1) * ExpectedContribution(
                            MUSCLE_PREFERENCES, pk, MusclesOf(g))

\* a pool scored with coefficients of a request, holding an exercise with
\* two muscles of one category that has a coefficient, an exercise with a
\* muscle of no category and an exercise with a muscle whose category has
\* no coefficient
C20_Witness ==
    /\ MUSCLE_PREFERENCES # ClassMusclePreferences
    /\ \E c \in Calls :
          /\ \E k \in 1 .. Len(candidates[c]) :
                \E g \in DOMAIN MUSCLE_PREFERENCES :
                    Cardinality(MusclesIn(candidates[c][k].pk) \cap MusclesOf(g)) > 1
          /\ \E k \in 1 .. Len(candidates[c]) :
                \E muscle \in MusclesIn(candidates[c][k].pk) :
                    \A g \in DOMAIN preference_mapping : muscle \notin MusclesOf(g)
          /\ \E k \in 1 .. Len(candidates[c]) :
                \E muscle \in MusclesIn(candidates[c][k].pk) :
                    \E g \in DOMAIN preference_mapping :
                        /\ muscle \in MusclesOf(g)
                        /\ g \notin DOMAIN MUSCLE_PREFERENCES

(***************************************************************************)
(* Pool resolution under exclusion sets that can empty a pool.             *)
(***************************************************************************)
\* exclusion sets of a request: none, one exercise, every exercise of "arm"
PoolExclusionValues == {{}, {3}, {4, 5, 6}}

\* the selector after construction and the assignments of generate_plan
PoolInit ==
    /\ selector_class \in {"GreedySelector", "HybridSelector"}
    /\ TRAINING_DAYS \in TrainingDaysValues
    /\ EXCLUDED_EXERCISES \in PoolExclusionValues
    /\ MUSCLE_PREFERENCES = ClassMusclePreferences
    /\ algorithm_params \in
          [exercises_per_day : {4, FIXED_K},
           exhaustive_threshold : ThresholdValues,
           max_2opt_iterations : {3}]
    \* GreedySelector does not read the threshold
    /\ selector_class = "GreedySelector" =>
          algorithm_params.exhaustive_threshold = 6
    /\ NoCallMade

PoolSpec == PoolInit /\ [][Next]_vars

\* the ids the labels of a day are mapped to, labels the map lacks
\* contributing none
MappedIds(groups) ==
    {id \in UNION {category_mapping[g] : g \in DOMAIN category_mapping} :
        \E k \in 1 .. Len(groups) :
            /\ groups[k] \in DOMAIN category_mapping
            /\ id \in category_mapping[groups[k]]}

\* the day's pool is the whole corpus but for the exclusions
FallsBackToCorpus(c, d) == day_log[c][d].pool = ExercisePks \ EXCLUDED_EXERCISES

\* C21: the pool of a training day is the whole corpus minus the exclusions
\* when the labels map to no id or are ["all"]; otherwise it is exactly the
\* mapped ids of the corpus that are not excluded, also when that leaves it
\* empty.
C21_PoolResolution ==
    \A c \in Calls : \A d \in ResolvedDays(c) :
        IF MappedIds(template[d]) = {} \/ template[d] = <<"all">>
        THEN FallsBackToCorpus(c, d)
        ELSE day_log[c][d].pool
                = (MappedIds(template[d]) \cap ExercisePks) \ EXCLUDED_EXERCISES

\* one week with a day whose labels are unknown, planned from the whole
\* corpus minus the exclusions, and a day whose mapped ids are all excluded,
\* planned from an empty pool
C21_Witness ==
    \E c \in Calls : \E d1, d2 \in ResolvedDays(c) :
        /\ pc[c] = "done"
        /\ EXCLUDED_EXERCISES # {}
        /\ MappedIds(template[d1]) = {}
        /\ template[d1] # <<"all">>
        /\ FallsBackToCorpus(c, d1)
        /\ MappedIds(template[d2]) # {}
        /\ day_log[c][d2].pool = {}

(***************************************************************************)
(* The diversity balance.                                                  *)
(***************************************************************************)
\* how many of the picks are in neither bucket of the dimension
UnclassifiedCount(picks, dimension) ==
    Cardinality({k \in 1 .. Len(picks) :
                    picks[k].pk \notin CountedSide(dimension) \cup OtherSide(dimension)})

\* how many of the picks are on the side of the dimension the exercise is on
OwnSideCount(exercise_id, picks, dimension) ==
    IF exercise_id \in CountedSide(dimension)
    THEN CountIn(picks, CountedSide(dimension))
    ELSE CountIn(picks, OtherSide(dimension))

\* the balance penalty is applied to the candidate in the dimension
PenaltyApplied(exercise_id, picks, dimension) ==
    BalancePenalty(exercise_id, picks, dimension) = diversity_rules.balance_penalty

\* C22 as the specification states it: while a day is planned, a candidate
\* on either side of a balance dimension receives the balance penalty if and
\* only if at least balance_threshold of the day's earlier picks are on the
\* candidate's own side.
C22_OwnSideThreshold ==
    \A c \in Calls :
        IF PlanningPosition(c)
        THEN \A id \in PoolOf(candidates[c]) : \A dimension \in BalanceDimensions :
                id \in CountedSide(dimension) \cup OtherSide(dimension)
                => (PenaltyApplied(id, selected_exercises[c], dimension)
                    <=> OwnSideCount(id, selected_exercises[c], dimension)
                            >= diversity_rules.balance_threshold)
        ELSE TRUE

\* C22: while a day is planned, in each balance dimension a candidate gets
\* the balance penalty at most once; a candidate of the counted side
\* (bilateral, compound, equipment) gets it if and only if at least
\* balance_threshold of the day's earlier picks are on that side; a candidate
\* of the other side (single-sided, isolation, free) gets it if and only if
\* at least balance_threshold of the earlier picks are NOT on the counted
\* side, picks in neither bucket included; a candidate in neither bucket
\* gets none.
C22_BalancePenalty ==
    \A c \in Calls :
        IF PlanningPosition(c)
        THEN \A id \in PoolOf(candidates[c]) : \A dimension \in BalanceDimensions :
                LET picks == selected_exercises[c]
                    threshold == diversity_rules.balance_threshold
                IN  /\ BalancePenalty(id, picks, dimension)
                          \in {0, diversity_rules.balance_penalty}
                    /\ IF id \in CountedSide(dimension)
                       THEN PenaltyApplied(id, picks, dimension)
                            <=> CountIn(picks, CountedSide(dimension)) >= threshold
                       ELSE IF id \in OtherSide(dimension)
                       THEN PenaltyApplied(id, picks, dimension)
                            <=> (CountIn(picks, OtherSide(dimension))
                                 + UnclassifiedCount(picks, dimension)) >= threshold
                       ELSE ~PenaltyApplied(id, picks, dimension)
        ELSE TRUE

\* a day is being planned: a candidate of the counted side is penalised in
\* one dimension, and a candidate of the other side is penalised although
\* fewer than balance_threshold picks are on its own side
C22_Witness ==
    \E c \in Calls :
        /\ PlanningPosition(c)
        /\ \E id \in PoolOf(candidates[c]) : \E dimension \in BalanceDimensions :
              /\ id \in CountedSide(dimension)
              /\ PenaltyApplied(id, selected_exercises[c], dimension)
        /\ \E id \in PoolOf(candidates[c]) : \E dimension \in BalanceDimensions :
              /\ id \in OtherSide(dimension)
              /\ PenaltyApplied(id, selected_exercises[c], dimension)
              /\ OwnSideCount(id, selected_exercises[c], dimension)
                    < diversity_rules.balance_threshold
              /\ UnclassifiedCount(selected_exercises[c], dimension) > 0

(***************************************************************************)
(* The muscle group overlap.                                               *)
(***************************************************************************)
\* the labels under which both the exercise and one of the picks are mapped
OverlappingLabels(exercise_id, picks) ==
    {label \in DOMAIN category_mapping :
        /\ exercise_id \in category_mapping[label]
        /\ \E k \in 1 .. Len(picks) : picks[k].pk \in category_mapping[label]}

\* C23: while a day is planned, the overlap component of a candidate's
\* dynamic score is same_muscle_group times the number of labels under which
\* both the candidate and at least one earlier pick of the day are mapped:
\* zero before the first pick, and growing with every such label.
C23_OverlapPerLabel ==
    \A c \in Calls :
        IF PlanningPosition(c)
        THEN \A id \in PoolOf(candidates[c]) :
                /\ MuscleGroupOverlap(id, selected_exercises[c])
                      = diversity_rules.penalties.same_muscle_group
                        * Cardinality(OverlappingLabels(id, selected_exercises[c]))
                /\ selected_exercises[c] = << >>
                      => MuscleGroupOverlap(id, selected_exercises[c]) = 0
        ELSE TRUE

\* a day is being planned after its first pick: one candidate overlaps the
\* picks under three labels and is penalised three times, another overlaps
\* under one label only
C23_Witness ==
    \E c \in Calls :
        /\ PlanningPosition(c)
        /\ selected_exercises[c] # << >>
        /\ \E id \in PoolOf(candidates[c]) \ selected_ids[c] :
              /\ Cardinality(OverlappingLabels(id, selected_exercises[c])) = 3
              /\ MuscleGroupOverlap(id, selected_exercises[c])
                    = 3 * diversity_rules.penalties.same_muscle_group
        /\ \E id \in PoolOf(candidates[c]) \ selected_ids[c] :
              Cardinality(OverlappingLabels(id, selected_exercises[c])) = 1

(***************************************************************************)
(* The greedy choice at one position.                                      *)
(***************************************************************************)
\* the candidates of a call that no position of the day has taken yet
Unselected(c) == PoolOf(candidates[c]) \ selected_ids[c]

\* static + dynamic of a candidate at the position the call is filling,
\* against the picks at the positions before it
CandidateTotal(c, id) ==
    StaticOf(candidates[c], id)
    + _calculate_dynamic_score(id, position[c], selected_exercises[c],
                               selected_families[c], global_selected_ids[c])

\* a greedy loop of the call has gone through one position
GreedyPositionDone(c) ==
    /\ PlanningPosition(c)
    /\ position'[c] = position[c] + 1

\* the position gone through holds an exercise that was unselected, is no
\* worse than any other unselected candidate, and is unselected no longer
GreedyPlacesBest(c) ==
    (GreedyPositionDone(c) /\ Unselected(c) # {}) =>
        /\ Len(selected_exercises'[c]) = Len(selected_exercises[c]) + 1
        /\ LET placed == selected_exercises'[c][Len(selected_exercises'[c])]
           IN  /\ placed.pk \in Unselected(c)
               /\ placed.position = position[c] + 1
               /\ \A id \in Unselected(c) :
                     CandidateTotal(c, placed.pk) >= CandidateTotal(c, id)
               /\ selected_ids'[c] = selected_ids[c] \cup {placed.pk}

\* C24: at every position a greedy loop goes through while a candidate is
\* left, it places an unselected candidate whose total (static + dynamic at
\* that position against the earlier picks) is at least that of every other
\* unselected candidate, and the placed exercise is out of consideration
\* for the later positions.
C24_GreedyLocallyOptimal == [][\A c \in Calls : GreedyPlacesBest(c)]_vars

(***************************************************************************)
(* The order of a 2-opt pass.                                              *)
(***************************************************************************)
\* the k-th pair of a pass names two positions the current solution has
PairInSolution(c, k) == SwapPairs[k][2] < Len(current_solution[c])

\* the current solution of the call with the positions of the k-th pair
\* exchanged and every score rebuilt
SwapSolution(c, k) ==
    _build_solution(
        Swapped([n \in 1 .. Len(current_solution[c]) |-> current_solution[c][n].pk],
                SwapPairs[k][1], SwapPairs[k][2]),
        candidates[c], global_selected_ids[c])

\* the rebuilt total of the k-th swap is strictly higher than the current
\* total
SwapImproves(c, k) ==
    TotalScore(SwapSolution(c, k)) > TotalScore(current_solution[c])

\* the call makes one pass of the while loop that ends without an error
PassMade(c) ==
    /\ pc[c] = "two_opt"
    /\ pc'[c] = "two_opt"
    /\ iterations'[c] = iterations[c] + 1

\* the pass accepts the swap of the first pair, in the order (0,1), (0,2),
\* ..., (3,4), whose rebuilt total is strictly higher, and of no other; with
\* no such pair it leaves the solution as it is
FirstImprovementPass(c) ==
    PassMade(c) =>
        IF improved'[c]
        THEN \E k \in 1 .. Len(SwapPairs) :
                /\ \A earlier \in 1 .. k - 1 :
                      PairInSolution(c, earlier) /\ ~SwapImproves(c, earlier)
                /\ PairInSolution(c, k)
                /\ SwapImproves(c, k)
                /\ current_solution'[c] = SwapSolution(c, k)
                /\ current_score'[c] = FloatTotal(SwapSolution(c, k))
        ELSE /\ \A k \in 1 .. Len(SwapPairs) :
                   PairInSolution(c, k) /\ ~SwapImproves(c, k)
             /\ current_solution'[c] = current_solution[c]
             /\ current_score'[c] = current_score[c]

\* the pairs of a pass in the order of the two loops
PairsInLoopOrder ==
    SwapPairs = << <<0, 1>>, <<0, 2>>, <<0, 3>>, <<0, 4>>, <<1, 2>>,
                   <<1, 3>>, <<1, 4>>, <<2, 3>>, <<2, 4>>, <<3, 4>> >>

\* C25: 2-opt follows a first-improvement policy: a pass tries the position
\* pairs in the order (0,1), (0,2), ..., (3,4), accepts the first swap whose
\* rebuilt total is strictly higher and stops there, and every pass, the
\* one after an accepted swap included, starts again from pair (0,1).
C25_FirstImprovement ==
    /\ []PairsInLoopOrder
    /\ [][\A c \in Calls : FirstImprovementPass(c)]_vars

\* after a pass that accepted a swap, the next pass starts from pair (0,1)
\* on the swapped solution and will accept a swap that is not the last
\* improving one of its scan
C25_Witness ==
    \E c \in Calls :
        /\ pc[c] = "two_opt"
        /\ iterations[c] >= 1
        /\ improved[c]
        /\ TwoOptContinues(c)
        /\ NextPass(c).kind = "accepted"
        /\ \E later \in NextPass(c).pair + 1 .. Len(SwapPairs) :
              PairInSolution(c, later) /\ SwapImproves(c, later)

(***************************************************************************)
(* What 2-opt returns after a pass without a swap.                         *)
(***************************************************************************)
\* the ordering the call's 2-opt returned with two of its positions
\* exchanged and every score rebuilt
ReturnedSwapped(c, i, j) ==
    _build_solution(
        Swapped([n \in 1 .. Len(exercises_with_scores[c]) |->
                    exercises_with_scores[c][n].pk], i, j),
        candidates[c], global_selected_ids[c])

\* 2-opt has returned because its last pass accepted no swap
ReturnedWithoutSwap(c) == TwoOptReturned(c) /\ ~improved[c]

\* C26: when 2-opt returns because a full pass accepted no swap, exchanging
\* any two positions of the returned ordering and rebuilding all scores
\* gives a total that is not strictly higher than the returned one.
C26_LocalOptimum ==
    \A c \in Calls :
        ReturnedWithoutSwap(c) =>
            \A i, j \in 0 .. Len(exercises_with_scores[c]) - 1 :
                i < j => TotalScore(ReturnedSwapped(c, i, j))
                            <= TotalScore(exercises_with_scores[c])

(***************************************************************************)
(* Positions in a DayPlan.                                                 *)
(***************************************************************************)
\* C27: in every DayPlan the k-th entry of the exercise list, counting from
\* 1, carries position k, whichever strategy produced the list.
C27_PositionsContiguous ==
    \A c \in Calls : \A d \in PlannedDays(c) :
        \A k \in 1 .. Len(weekly_plan[c][d].exercises) :
            weekly_plan[c][d].exercises[k].position = k

(***************************************************************************)
(* What a call leaves behind on the selector.                              *)
(***************************************************************************)
\* no step of a call changes the selector: its class, TRAINING_DAYS, the
\* exclusion set, the algorithm parameters and the preference coefficients
\* (the corpus and the tables are read only in every definition above)
SelectorUnchanged == selector_vars' = selector_vars

\* a step that begins a call gives it an empty weekly id set
CallStartsEmpty ==
    \A c \in Calls :
        (pc[c] = "idle" /\ pc'[c] = "day_loop") => global_selected_ids'[c] = {}

\* a call made after the first ends as the first did, with the same plan
LaterCallsRepeatFirst ==
    \A c \in Calls :
        (c > 1 /\ Finished(c)) =>
            /\ Finished(1)
            /\ pc[c] = pc[1]
            /\ weekly_plan[c] = weekly_plan[1]

\* C28: generate_weekly_plan leaves the selector as it found it, each call
\* starts from an empty weekly id set, and a second call on the same
\* selector returns what the first returned.
C28_SelectorUnchanged ==
    /\ [][SelectorUnchanged /\ CallStartsEmpty]_vars
    /\ []LaterCallsRepeatFirst

\* a second call has returned a plan after the first: both selected
\* exercises on more than one day, under a non-empty exclusion set
C28_Witness ==
    /\ pc[1] = "done"
    /\ pc[2] = "done"
    /\ EXCLUDED_EXERCISES # {}
    /\ Cardinality({d \in PlannedDays(2) : weekly_plan[2][d].exercises # << >>}) >= 2
    /\ global_selected_ids[1] # {}
    /\ global_selected_ids[2] = global_selected_ids[1]

(***************************************************************************)
(* Bad references in the labels and in the category map.                   *)
(***************************************************************************)
\* labels a day may carry: categories of the map, "chest" among them with
\* an id the corpus lacks, the sentinel and two labels the map lacks
Labels == {"chest", "back", "arm", "all", "calves", "glutes"}

\* the label lists of at most two labels
LabelLists == {<<l>> : l \in Labels} \cup {<<l1, l2>> : l1, l2 \in Labels}

\* the labels of the list that the category map has, in their order
KnownLabels(groups) ==
    LET known == {k \in 1 .. Len(groups) : groups[k] \in DOMAIN category_mapping}
    IN  [n \in 1 .. Cardinality(known) |->
            groups[CHOOSE k \in known :
                      Cardinality({j \in known : j < k}) = n - 1]]

\* the ids of the pool resolved from the labels under the selector's
\* exclusion set
PoolFor(groups) == PoolOf(_get_candidate_exercises(groups, {}, EXCLUDED_EXERCISES))

\* every member of every pool a call has resolved is a corpus exercise
PoolsHoldCorpusExercises ==
    \A c \in Calls :
        /\ PoolOf(candidates[c]) \subseteq ExercisePks
        /\ \A d \in 1 .. Len(day_log[c]) : day_log[c][d].pool \subseteq ExercisePks

\* a label the map lacks changes nothing in the pool of a list that has a
\* label which maps to some id, and a mapped id the corpus lacks is left out
BadReferencesContributeNothing ==
    \A groups \in LabelLists :
        /\ PoolFor(groups) \subseteq ExercisePks
        /\ PoolFor(groups) \cap EXCLUDED_EXERCISES = {}
        /\ ((MappedIds(groups) \cap ExercisePks) \ EXCLUDED_EXERCISES)
              \subseteq PoolFor(groups)
        /\ (MappedIds(groups) # {} /\ groups # <<"all">>)
              => PoolFor(groups) = PoolFor(KnownLabels(groups))

\* C29: resolving a pool does not fail on bad references: a label the
\* category map lacks contributes no ids, a mapped id the corpus lacks is
\* left out, and every member of every pool is a corpus exercise.
C29_BadReferencesTolerated ==
    /\ PoolsHoldCorpusExercises
    /\ BadReferencesContributeNothing

\* a call has planned a day whose label maps to an id the corpus lacks, and
\* the day's pool is the rest of the mapped ids
C29_Witness ==
    \E c \in Calls : \E d \in TrainingDaysPlanned(c) :
        /\ MappedIds(template[d]) \ ExercisePks # {}
        /\ day_log[c][d].pool # {}
        /\ day_log[c][d].pool = (MappedIds(template[d]) \cap ExercisePks)
                                   \ EXCLUDED_EXERCISES
        /\ Pks(weekly_plan[c][d].exercises) \subseteq ExercisePks
        /\ PoolFor(<<"chest", "calves">>) = day_log[c][d].pool

(***************************************************************************)
(* The two greedy loops: GreedySelector._select_exercises_for_day and      *)
(* HybridSelector._greedy_search.                                          *)
(***************************************************************************)
\* GreedySelector._select_exercises_for_day on the labels and the weekly ids
GreedySelectorDay(groups, weekly_ids) ==
    GreedySelectorFrom(0, NoPicks,
        _get_candidate_exercises(groups, weekly_ids, EXCLUDED_EXERCISES),
        weekly_ids, algorithm_params.exercises_per_day)

\* HybridSelector._greedy_search on the pool resolved from the labels
HybridGreedyDay(groups, weekly_ids) ==
    _greedy_search(
        _get_candidate_exercises(groups, weekly_ids, EXCLUDED_EXERCISES),
        weekly_ids, algorithm_params.exercises_per_day)

\* the two loops return the same records for the labels and the weekly ids
\* of every day a call has resolved
SameDayResult ==
    \A c \in Calls : \A d \in ResolvedDays(c) :
        GreedySelectorDay(template[d], day_log[c][d].weekly_ids)
            = HybridGreedyDay(template[d], day_log[c][d].weekly_ids)

\* at the position a call is planning, the two loops make the same step
SamePositionResult ==
    \A c \in Calls :
        PlanningPosition(c)
            => GreedySelectorStep(candidates[c], position[c], Picks(c),
                                  global_selected_ids[c])
                 = HybridGreedyStep(candidates[c], position[c], Picks(c),
                                    global_selected_ids[c])

\* the DayPlan a GreedySelector call appended is what _greedy_search returns
\* on the day's pool, and the DayPlan of a HybridSelector day that only ran
\* _greedy_search is what GreedySelector returns for the day
PlansAreTheOtherLoops ==
    \A c \in Calls : \A d \in TrainingDaysPlanned(c) :
        LET weekly_ids == day_log[c][d].weekly_ids
        IN  /\ selector_class = "GreedySelector"
                 => weekly_plan[c][d].exercises
                      = HybridGreedyDay(template[d], weekly_ids)
            /\ day_log[c][d].strategies = <<"exhaustive", "greedy">>
                 => weekly_plan[c][d].exercises
                      = GreedySelectorDay(template[d], weekly_ids)

\* C30: for every day's labels and weekly id set,
\* GreedySelector._select_exercises_for_day returns the same ordered
\* exercises with the same scores as HybridSelector._greedy_search run on
\* the pool resolved from the same labels.
C30_GreedyLoopsEquivalent ==
    /\ SameDayResult
    /\ SamePositionResult
    /\ PlansAreTheOtherLoops

\* a GreedySelector call has planned a later day of its week, with weekly
\* ids from the earlier days, and the day holds at least three exercises
C30_Witness ==
    \E c \in Calls : \E d \in TrainingDaysPlanned(c) :
        /\ selector_class = "GreedySelector"
        /\ day_log[c][d].weekly_ids # {}
        /\ Len(weekly_plan[c][d].exercises) >= 3
        /\ weekly_plan[c][d].exercises
              = HybridGreedyDay(template[d], day_log[c][d].weekly_ids)
        /\ weekly_plan[c][d].exercises
              # _greedy_search(
                   _get_candidate_exercises(template[d],
                       day_log[c][d].weekly_ids, EXCLUDED_EXERCISES),
                   {}, algorithm_params.exercises_per_day)
=============================================================================
